---- MODULE Spec2Model ----
(***************************************************************************)
(* A model of the packet layer of aprs-parser-rs: the textual (APRS-IS)    *)
(* and the AX.25 codec of AprsPacket, with the callsign, via and            *)
(* information-field codecs they call.                                       *)
(*                                                                         *)
(* Bytes are integers 0..255 and byte strings are sequences of them.  The  *)
(* codecs are pure functions, so each one is an operator computed the way  *)
(* the code computes it; the state machine below applies them, one call    *)
(* per step, to inputs drawn from bounded sets, and keeps every value      *)
(* produced so far in the history `hist`.                                  *)
(*                                                                         *)
(* An encoder writes into a caller-supplied sink as it goes, so an encode  *)
(* result is [ok, err, out] where `out` holds the bytes written so far,    *)
(* also when the call ends in an error.                                    *)
(*                                                                         *)
(* Information fields of the Position and Mic-E kind are not drawn by the  *)
(* input sets of this module: their codecs (position.rs, mic_e.rs) are     *)
(* not modelled here.                                                      *)
(***************************************************************************)
EXTENDS Integers, Sequences, FiniteSets, TLC

VARIABLES hist

vars == <<hist>>

(***************************************************************************)
(* Bytes                                                                   *)
(***************************************************************************)

\* The printable ASCII characters, from the space (32) to the tilde (126);
\* the double quote, the backslash and the backquote are written by name.
AsciiChars ==
    <<" ", "!", "dquote", "#", "$", "%", "&", "'", "(", ")", "*", "+",
      ",", "-", ".", "/", "0", "1", "2", "3", "4", "5", "6", "7",
      "8", "9", ":", ";", "<", "=", ">", "?", "@", "A", "B", "C",
      "D", "E", "F", "G", "H", "I", "J", "K", "L", "M", "N", "O",
      "P", "Q", "R", "S", "T", "U", "V", "W", "X", "Y", "Z", "[",
      "backslash", "]", "^", "_", "backquote", "a", "b", "c", "d", "e", "f", "g",
      "h", "i", "j", "k", "l", "m", "n", "o", "p", "q", "r", "s",
      "t", "u", "v", "w", "x", "y", "z", "{", "|", "}", "~">>

\* The ASCII code of a character.
Ord ==
    [c \in {AsciiChars[i] : i \in 1..Len(AsciiChars)} |->
        31 + (CHOOSE i \in 1..Len(AsciiChars) : AsciiChars[i] = c)]

\* The byte string written with the characters cs, e.g. B(<<"A", "-", "1">>).
B(cs) == [i \in 1..Len(cs) |-> Ord[cs[i]]]

\* s[from..to) with 0-based bounds, as a Rust slice s[from..to].
Slice(s, from, to) == SubSeq(s, from + 1, to)

\* The 0-based index of the first byte of s equal to b, or -1.
Position(s, b) ==
    IF \E i \in 1..Len(s) : s[i] = b
    THEN (CHOOSE i \in 1..Len(s) : s[i] = b /\ \A j \in 1..(i - 1) : s[j] # b) - 1
    ELSE -1

\* slice::split: the pieces of s between the bytes equal to b (always at
\* least one piece, possibly empty).
RECURSIVE Split(_, _)
Split(s, b) ==
    LET p == Position(s, b)
    IN  IF p < 0 THEN <<s>>
        ELSE <<Slice(s, 0, p)>> \o Split(Slice(s, p + 1, Len(s)), b)

\* u8::is_ascii_digit, u8::is_ascii_alphanumeric, u8::to_ascii_uppercase
IsAsciiDigit(c) == c >= 48 /\ c <= 57
IsAsciiAlphanumeric(c) ==
    \/ IsAsciiDigit(c)
    \/ (c >= 65 /\ c <= 90)
    \/ (c >= 97 /\ c <= 122)
ToAsciiUppercase(c) == IF c >= 97 /\ c <= 122 THEN c - 32 ELSE c

\* std::str::from_utf8(s).is_ok(): s is well-formed UTF-8.
IsCont(c) == c >= 128 /\ c <= 191
RECURSIVE IsUtf8(_)
IsUtf8(s) ==
    IF Len(s) = 0 THEN TRUE
    ELSE
      LET c == s[1]
          n == Len(s)
      IN  IF c < 128 THEN IsUtf8(Tail(s))
          ELSE IF c >= 194 /\ c <= 223
          THEN n >= 2 /\ IsCont(s[2]) /\ IsUtf8(Slice(s, 2, n))
          ELSE IF c >= 224 /\ c <= 239
          THEN /\ n >= 3
               /\ IsCont(s[2]) /\ IsCont(s[3])
               /\ (c = 224 => s[2] >= 160)
               /\ (c = 237 => s[2] <= 159)
               /\ IsUtf8(Slice(s, 3, n))
          ELSE IF c >= 240 /\ c <= 244
          THEN /\ n >= 4
               /\ IsCont(s[2]) /\ IsCont(s[3]) /\ IsCont(s[4])
               /\ (c = 240 => s[2] >= 144)
               /\ (c = 244 => s[2] <= 143)
               /\ IsUtf8(Slice(s, 4, n))
          ELSE FALSE

\* The decimal value of a string of ASCII digits.
RECURSIVE DigitsValue(_)
DigitsValue(s) ==
    IF Len(s) = 0 THEN 0
    ELSE 10 * DigitsValue(Slice(s, 0, Len(s) - 1)) + (s[Len(s)] - 48)

\* str::parse::<u8>: an optional '+', then one or more digits whose value
\* fits in a u8.  [ok, v].
ParseU8(s) ==
    LET d == IF Len(s) > 0 /\ s[1] = 43 THEN Tail(s) ELSE s
    IN  IF /\ Len(d) > 0
           /\ \A i \in 1..Len(d) : IsAsciiDigit(d[i])
           /\ DigitsValue(d) <= 255
        THEN [ok |-> TRUE, v |-> DigitsValue(d)]
        ELSE [ok |-> FALSE, v |-> 0]

\* parse_bytes::<u8>: from_utf8, then parse.
parse_bytes(s) == IF IsUtf8(s) THEN ParseU8(s) ELSE [ok |-> FALSE, v |-> 0]

\* format!("{}", n) and format!("{:02}", n) of a u8
RECURSIVE FormatU8(_)
FormatU8(n) == IF n < 10 THEN <<48 + n>> ELSE FormatU8(n \div 10) \o <<48 + (n % 10)>>
FormatU8Pad2(n) == IF n < 10 THEN <<48, 48 + n>> ELSE FormatU8(n)

\* The result of an encoder: Ok(()) or Err(err), with the bytes it wrote.
Wrote(bytes) == [ok |-> TRUE, err |-> "", out |-> bytes]
Failed(e, bytes) == [ok |-> FALSE, err |-> e, out |-> bytes]
\* r1 ?; then r2: the second call runs only when the first returned Ok.
Then(r1, r2) ==
    IF r1.ok THEN [ok |-> r2.ok, err |-> r2.err, out |-> r1.out \o r2.out]
    ELSE r1

(***************************************************************************)
(* u8 arithmetic                                                           *)
(***************************************************************************)

RECURSIVE BitAnd(_, _)
BitAnd(a, b) ==
    IF a = 0 \/ b = 0 THEN 0
    ELSE (IF a % 2 = 1 /\ b % 2 = 1 THEN 1 ELSE 0) + 2 * BitAnd(a \div 2, b \div 2)

RECURSIVE BitOr(_, _)
BitOr(a, b) ==
    IF a = 0 THEN b
    ELSE IF b = 0 THEN a
    ELSE (IF a % 2 = 1 \/ b % 2 = 1 THEN 1 ELSE 0) + 2 * BitOr(a \div 2, b \div 2)

\* a << n and a >> n on a u8 (n < 8): the bits shifted out are lost.
Shl(a, n) == (a * (2 ^ n)) % 256
Shr(a, n) == a \div (2 ^ n)

(***************************************************************************)
(* Callsign (callsign.rs)                                                  *)
(***************************************************************************)

\* Option<String>
NoSsid == [some |-> FALSE, v |-> <<>>]
SomeSsid(s) == [some |-> TRUE, v |-> s]

Callsign_new_no_ssid(call) == [call |-> call, ssid |-> NoSsid]
Callsign_new_with_ssid(call, ssid) == [call |-> call, ssid |-> SomeSsid(ssid)]

\* Option<Callsign>
NoCallsign == [ok |-> FALSE, c |-> Callsign_new_no_ssid(<<>>)]

\* Callsign::new: split once at the first '-'.
Callsign_new(s) ==
    LET p == Position(s, 45)
    IN  IF p >= 0
        THEN LET call == Slice(s, 0, p)
                 ssid == Slice(s, p + 1, Len(s))
             IN  IF Len(call) = 0 \/ Len(ssid) = 0
                 THEN NoCallsign
                 ELSE [ok |-> TRUE, c |-> Callsign_new_with_ssid(call, ssid)]
        ELSE [ok |-> TRUE, c |-> Callsign_new_no_ssid(s)]

\* Display that leaves the SSID out.
Callsign_fmt_no_ssid(c) == c.call

\* impl Display for Callsign
Callsign_fmt(c) ==
    c.call \o (IF c.ssid.some /\ Len(c.ssid.v) > 0 THEN <<45>> \o c.ssid.v ELSE <<>>)

\* Callsign::encode_textual
Callsign_encode_textual(c, heard) ==
    Wrote(Callsign_fmt(c) \o (IF heard THEN <<42>> ELSE <<>>))

\* Callsign::decode_textual: Option<(Callsign, heard)> as [ok, c, heard].
Callsign_decode_textual(bytes) ==
    LET heard == Len(bytes) > 0 /\ bytes[Len(bytes)] = 42
        rest == IF heard THEN Slice(bytes, 0, Len(bytes) - 1) ELSE bytes
        r == IF IsUtf8(rest) THEN Callsign_new(rest) ELSE NoCallsign
    IN  [ok |-> r.ok, c |-> r.c, heard |-> r.ok /\ heard]

\* enum CallsignField
Destination == [kind |-> "Destination", heard |-> FALSE]
Source == [kind |-> "Source", heard |-> FALSE]
ViaField(heard) == [kind |-> "Via", heard |-> heard]

\* The length of the longest prefix of s made of ASCII alphanumerics.
RECURSIVE AlnumPrefix(_)
AlnumPrefix(s) ==
    IF Len(s) > 0 /\ IsAsciiAlphanumeric(s[1]) THEN 1 + AlnumPrefix(Tail(s)) ELSE 0

\* The 7th byte with the destination written as the source is.
FlagByte_dest_as_source(field, ssid, has_more) ==
    96 + 2 * ssid + (IF field.heard THEN 128 ELSE 0) + (IF has_more THEN 0 ELSE 1)

\* The 7th byte without the SSID.
FlagByte_no_ssid(field, ssid, has_more) ==
    (IF field.kind = "Destination" THEN 224 ELSE 96)
    + (IF field.heard THEN 128 ELSE 0) + (IF has_more THEN 0 ELSE 1)

\* The 7th byte of an address field.
FlagByte(field, ssid, has_more) ==
    LET last == IF has_more THEN 0 ELSE 1
    IN  CASE field.kind = "Destination" -> BitOr(BitOr(224, Shl(ssid, 1)), last)
          [] field.kind = "Source" -> BitOr(BitOr(96, Shl(ssid, 1)), last)
          [] field.kind = "Via" ->
               BitOr(BitOr(BitOr(96, Shl(ssid, 1)),
                           Shl(IF field.heard THEN 1 ELSE 0, 7)), last)

\* encode_ax25 without the check of the length of the base.
Callsign_encode_ax25_any_length(c, field, has_more) ==
    LET call == c.call
        ssid == IF c.ssid.some THEN ParseU8(c.ssid.v) ELSE [ok |-> TRUE, v |-> 0]
        n == AlnumPrefix(call)
        shifted == [i \in 1..n |-> Shl(ToAsciiUppercase(call[i]), 1)]
    IN  IF ~ssid.ok THEN Failed("InvalidCallsign", <<>>)
        ELSE IF ssid.v > 15 THEN Failed("InvalidCallsign", <<>>)
        ELSE IF n < Len(call) THEN Failed("InvalidCallsign", shifted)
        ELSE Wrote(shifted
                   \o [i \in 1..(6 - Len(call)) |-> Shl(32, 1)]
                   \o <<FlagByte(field, ssid.v, has_more)>>)

\* Callsign::encode_ax25: the checks return before anything is written,
\* except the character check, which runs while the characters are written.
Callsign_encode_ax25(c, field, has_more) ==
    LET call == c.call
        ssid == IF c.ssid.some THEN ParseU8(c.ssid.v) ELSE [ok |-> TRUE, v |-> 0]
        n == AlnumPrefix(call)
        shifted == [i \in 1..n |-> Shl(ToAsciiUppercase(call[i]), 1)]
    IN  IF Len(call) > 6 THEN Failed("InvalidCallsign", <<>>)
        ELSE IF ~ssid.ok THEN Failed("InvalidCallsign", <<>>)
        ELSE IF ssid.v > 15 THEN Failed("InvalidCallsign", <<>>)
        ELSE IF n < Len(call) THEN Failed("InvalidCallsign", shifted)
        ELSE Wrote(shifted
                   \o [i \in 1..(6 - Len(call)) |-> Shl(32, 1)]
                   \o <<FlagByte(field, ssid.v, has_more)>>)

\* decode_ax25 that never reports a hop as heard.
Callsign_decode_ax25_no_heard(data) ==
    IF Len(data) # 7 \/ \E i \in 1..6 : data[i] % 2 = 1
    THEN [ok |-> FALSE, c |-> NoCallsign.c, heard |-> FALSE, has_more |-> FALSE]
    ELSE [ok |-> TRUE,
          c |-> [call |-> SelectSeq([i \in 1..6 |-> ToAsciiUppercase(Shr(data[i], 1))],
                                   LAMBDA d : d # 32),
                 ssid |-> IF Shr(BitAnd(data[7], 30), 1) = 0 THEN NoSsid
                          ELSE SomeSsid(FormatU8(Shr(BitAnd(data[7], 30), 1)))],
          heard |-> FALSE,
          has_more |-> BitAnd(data[7], 1) = 0]

\* decode_ax25 that returns the SSID 0 as present.
Callsign_decode_ax25_ssid_zero(data) ==
    IF \/ Len(data) # 7
       \/ \E i \in 1..6 : data[i] % 2 = 1
       \/ \E i \in 1..6 : (Shr(data[i], 1) # 32 /\ ~IsAsciiAlphanumeric(Shr(data[i], 1)))
       \/ \E i \in 1..6 : \E j \in 1..(i - 1) : (Shr(data[i], 1) # 32 /\ Shr(data[j], 1) = 32)
    THEN [ok |-> FALSE, c |-> NoCallsign.c, heard |-> FALSE, has_more |-> FALSE]
    ELSE [ok |-> TRUE,
          c |-> [call |-> SelectSeq([i \in 1..6 |-> ToAsciiUppercase(Shr(data[i], 1))],
                                   LAMBDA d : d # 32),
                 ssid |-> SomeSsid(FormatU8(Shr(BitAnd(data[7], 30), 1)))],
          heard |-> BitAnd(data[7], 128) # 0,
          has_more |-> BitAnd(data[7], 1) = 0]

\* Callsign::decode_ax25: Option<(Callsign, heard, has_more)>.
Callsign_decode_ax25(data) ==
    IF Len(data) # 7 THEN [ok |-> FALSE, c |-> NoCallsign.c, heard |-> FALSE, has_more |-> FALSE]
    ELSE
      LET d == [i \in 1..6 |-> Shr(data[i], 1)]
          good(i) ==
              /\ BitAnd(data[i], 1) = 0
              /\ \/ d[i] = 32
                 \/ /\ \A j \in 1..(i - 1) : d[j] # 32
                    /\ IsAsciiAlphanumeric(d[i])
          call == [i \in 1..Cardinality({j \in 1..6 : d[j] # 32}) |-> ToAsciiUppercase(d[i])]
          s == data[7]
          ssid == Shr(BitAnd(s, 30), 1)
      IN  IF \A i \in 1..6 : good(i)
          THEN [ok |-> TRUE,
                c |-> [call |-> call,
                       ssid |-> IF ssid = 0 THEN NoSsid ELSE SomeSsid(FormatU8(ssid))],
                heard |-> BitAnd(s, 128) # 0,
                has_more |-> BitAnd(s, 1) = 0]
          ELSE [ok |-> FALSE, c |-> NoCallsign.c, heard |-> FALSE, has_more |-> FALSE]

(***************************************************************************)
(* Via and QConstruct (via.rs)                                             *)
(***************************************************************************)

\* QConstruct::as_textual
QConstruct_as_textual ==
    [q \in {"AC", "AX", "AU", "Ao", "AO", "AS", "Ar", "AR", "AZ", "AI"} |->
        CASE q = "AC" -> <<113, 65, 67>> [] q = "AX" -> <<113, 65, 88>>
          [] q = "AU" -> <<113, 65, 85>> [] q = "Ao" -> <<113, 65, 111>>
          [] q = "AO" -> <<113, 65, 79>> [] q = "AS" -> <<113, 65, 83>>
          [] q = "Ar" -> <<113, 65, 114>> [] q = "AR" -> <<113, 65, 82>>
          [] q = "AZ" -> <<113, 65, 90>> [] q = "AI" -> <<113, 65, 73>>]

\* QConstruct::decode_textual: the inverse table, [ok, q].
QConstruct_decode_textual(bytes) ==
    CASE bytes = <<113, 65, 67>> -> [ok |-> TRUE, q |-> "AC"]
      [] bytes = <<113, 65, 88>> -> [ok |-> TRUE, q |-> "AX"]
      [] bytes = <<113, 65, 85>> -> [ok |-> TRUE, q |-> "AU"]
      [] bytes = <<113, 65, 111>> -> [ok |-> TRUE, q |-> "Ao"]
      [] bytes = <<113, 65, 79>> -> [ok |-> TRUE, q |-> "AO"]
      [] bytes = <<113, 65, 83>> -> [ok |-> TRUE, q |-> "AS"]
      [] bytes = <<113, 65, 114>> -> [ok |-> TRUE, q |-> "Ar"]
      [] bytes = <<113, 65, 82>> -> [ok |-> TRUE, q |-> "AR"]
      [] bytes = <<113, 65, 90>> -> [ok |-> TRUE, q |-> "AZ"]
      [] bytes = <<113, 65, 73>> -> [ok |-> TRUE, q |-> "AI"]
      [] OTHER -> [ok |-> FALSE, q |-> ""]

\* enum Via
ViaCallsign(c, heard) == [tag |-> "Callsign", c |-> c, heard |-> heard, q |-> ""]
ViaQConstruct(q) == [tag |-> "QConstruct", c |-> NoCallsign.c, heard |-> FALSE, q |-> q]

\* Via::decode_textual: a Q-construct first, else a callsign.  [ok, v].
Via_decode_textual(bytes) ==
    LET q == QConstruct_decode_textual(bytes)
        c == Callsign_decode_textual(bytes)
    IN  IF q.ok THEN [ok |-> TRUE, v |-> ViaQConstruct(q.q)]
        ELSE IF c.ok THEN [ok |-> TRUE, v |-> ViaCallsign(c.c, c.heard)]
        ELSE [ok |-> FALSE, v |-> ViaQConstruct("")]

\* Via::encode_textual
Via_encode_textual(v) ==
    IF v.tag = "Callsign" THEN Callsign_encode_textual(v.c, v.heard)
    ELSE Wrote(QConstruct_as_textual[v.q])

(***************************************************************************)
(* Timestamp (timestamp.rs)                                                *)
(***************************************************************************)

\* enum Timestamp: DDHHMM(a, b, c), HHMMSS(a, b, c) or Unsupported(raw)
Timestamp_DDHHMM(d, h, m) == [kind |-> "DDHHMM", a |-> d, b |-> h, c |-> m, raw |-> <<>>]
Timestamp_HHMMSS(h, m, sec) == [kind |-> "HHMMSS", a |-> h, b |-> m, c |-> sec, raw |-> <<>>]
Timestamp_Unsupported(raw) == [kind |-> "Unsupported", a |-> 0, b |-> 0, c |-> 0, raw |-> raw]

\* Option<Timestamp>
NoTimestamp == [some |-> FALSE, v |-> Timestamp_Unsupported(<<>>)]
SomeTimestamp(t) == [some |-> TRUE, v |-> t]

\* Timestamp::try_from(&[u8]): [ok, v]
Timestamp_try_from(b) ==
    LET one == parse_bytes(Slice(b, 0, 2))
        two == parse_bytes(Slice(b, 2, 4))
        three == parse_bytes(Slice(b, 4, 6))
        bad == [ok |-> FALSE, v |-> NoTimestamp.v]
    IN  IF Len(b) # 7 THEN bad
        ELSE IF b[7] = 47 THEN [ok |-> TRUE, v |-> Timestamp_Unsupported(b)]
        ELSE IF ~one.ok \/ ~two.ok \/ ~three.ok THEN bad
        ELSE IF b[7] = 122 \/ b[7] = 90
        THEN [ok |-> TRUE, v |-> Timestamp_DDHHMM(one.v, two.v, three.v)]
        ELSE IF b[7] = 104 \/ b[7] = 72
        THEN [ok |-> TRUE, v |-> Timestamp_HHMMSS(one.v, two.v, three.v)]
        ELSE bad

\* Timestamp::encode
Timestamp_encode(t) ==
    CASE t.kind = "DDHHMM" ->
           Wrote(FormatU8Pad2(t.a) \o FormatU8Pad2(t.b) \o FormatU8Pad2(t.c) \o <<122>>)
      [] t.kind = "HHMMSS" ->
           Wrote(FormatU8Pad2(t.a) \o FormatU8Pad2(t.b) \o FormatU8Pad2(t.c) \o <<104>>)
      [] t.kind = "Unsupported" -> Wrote(t.raw)

(***************************************************************************)
(* AprsStatus (status.rs), AprsMessage (message.rs)                        *)
(***************************************************************************)

\* Option<Vec<u8>>
NoBytes == [some |-> FALSE, v |-> <<>>]
SomeBytes(b) == [some |-> TRUE, v |-> b]

\* AprsStatus::decode that takes the whole field as the comment.
AprsStatus_decode_no_timestamp(b, to) ==
    [ok |-> TRUE, err |-> "",
     data |-> [tag |-> "Status", to |-> to, timestamp |-> NoTimestamp, comment |-> b]]

\* AprsStatus::decode: never fails.
AprsStatus_decode(b, to) ==
    LET t == IF Len(b) >= 7 THEN Timestamp_try_from(Slice(b, 0, 7))
             ELSE [ok |-> FALSE, v |-> NoTimestamp.v]
    IN  [ok |-> TRUE, err |-> "",
         data |-> [tag |-> "Status", to |-> to,
                   timestamp |-> IF t.ok THEN SomeTimestamp(t.v) ELSE NoTimestamp,
                   comment |-> IF t.ok THEN Slice(b, 7, Len(b)) ELSE b]]

\* AprsStatus::encode
AprsStatus_encode(st) ==
    Then(Wrote(<<62>>),
    Then(IF st.timestamp.some THEN Timestamp_encode(st.timestamp.v) ELSE Wrote(<<>>),
         Wrote(st.comment)))

\* trim_spaces_end
RECURSIVE trim_spaces_end(_)
trim_spaces_end(arr) ==
    IF Len(arr) > 0 /\ arr[Len(arr)] = 32
    THEN trim_spaces_end(Slice(arr, 0, Len(arr) - 1))
    ELSE arr

\* slice::splitn(2, ..): the piece before the first b, and the rest if any.
SplitOnce(s, b) ==
    LET p == Position(s, b)
    IN  IF p < 0 THEN [head |-> s, rest |-> NoBytes]
        ELSE [head |-> Slice(s, 0, p), rest |-> SomeBytes(Slice(s, p + 1, Len(s)))]

\* AprsMessage::decode that keeps the spaces of the addressee.
AprsMessage_decode_untrimmed(b, to) ==
    LET a == SplitOnce(b, 58)
        text == SplitOnce(IF a.rest.some THEN a.rest.v ELSE <<>>, 123)
    IN  IF Len(a.head) # 9
        THEN [ok |-> FALSE, err |-> "InvalidMessageDestination",
              data |-> [tag |-> "Unknown", to |-> to]]
        ELSE [ok |-> TRUE, err |-> "",
              data |-> [tag |-> "Message", to |-> to,
                        addressee |-> a.head,
                        text |-> text.head,
                        id |-> text.rest]]

\* AprsMessage::decode
AprsMessage_decode(b, to) ==
    LET a == SplitOnce(b, 58)
        text == SplitOnce(IF a.rest.some THEN a.rest.v ELSE <<>>, 123)
    IN  IF Len(a.head) # 9
        THEN [ok |-> FALSE, err |-> "InvalidMessageDestination",
              data |-> [tag |-> "Unknown", to |-> to]]
        ELSE [ok |-> TRUE, err |-> "",
              data |-> [tag |-> "Message", to |-> to,
                        addressee |-> trim_spaces_end(a.head),
                        text |-> text.head,
                        id |-> text.rest]]

\* AprsMessage::encode
AprsMessage_encode(m) ==
    IF Len(m.addressee) > 9 THEN Failed("InvalidMessageAddressee", <<>>)
    ELSE Wrote(<<58>> \o m.addressee
               \o [i \in 1..(9 - Len(m.addressee)) |-> 32]
               \o <<58>> \o m.text
               \o (IF m.id.some THEN <<123>> \o m.id.v ELSE <<>>))

(***************************************************************************)
(* AprsData (packet.rs)                                                    *)
(***************************************************************************)

\* The data type identifiers of the Position and Mic-E branches.
PositionIdentifiers == {33, 47, 61, 64}
MicEIdentifiers == {28, 96, 29, 39}

\* AprsData::decode, on the information fields whose first byte selects the
\* Message, Status or Unknown branch.
AprsData_decode(s, to) ==
    LET first == IF Len(s) > 0 THEN s[1] ELSE 0
    IN  CASE first = 58 -> AprsMessage_decode(Tail(s), to)
          [] first = 62 -> AprsStatus_decode(Tail(s), to)
          [] first \notin {58, 62} \cup PositionIdentifiers \cup MicEIdentifiers ->
               [ok |-> TRUE, err |-> "", data |-> [tag |-> "Unknown", to |-> to]]

\* AprsData::dest_field
AprsData_dest_field(data) == data.to

\* AprsData::encode writing nothing for an Unknown packet.
AprsData_encode_unknown_ok(data) ==
    CASE data.tag = "Message" -> AprsMessage_encode(data)
      [] data.tag = "Status" -> AprsStatus_encode(data)
      [] data.tag = "Unknown" -> Wrote(<<>>)

\* AprsData::encode
AprsData_encode(data) ==
    CASE data.tag = "Message" -> AprsMessage_encode(data)
      [] data.tag = "Status" -> AprsStatus_encode(data)
      [] data.tag = "Unknown" -> Failed("InvalidData", <<>>)

(***************************************************************************)
(* AprsPacket (packet.rs)                                                  *)
(***************************************************************************)

\* Result<AprsPacket, DecodeError>
Packet(from, via, data) == [tag |-> "packet", from |-> from, via |-> via, data |-> data]
DecodeError(e) == [tag |-> "decode_error", err |-> e]

\* decode_textual without the loop that propagates the flag.
PropagateHeard_skipped(via, heard) == via

\* The loop of decode_textual over via.iter_mut().rev(): `heard` is the
\* loop's flag when it reaches the last hop of `via`.
RECURSIVE PropagateHeard(_, _)
PropagateHeard(via, heard) ==
    IF Len(via) = 0 THEN <<>>
    ELSE
      LET v == via[Len(via)]
          rest == Slice(via, 0, Len(via) - 1)
      IN  IF v.tag = "Callsign"
          THEN LET h == IF ~heard THEN v.heard ELSE heard
               IN  PropagateHeard(rest, h) \o <<[v EXCEPT !.heard = h]>>
          ELSE PropagateHeard(rest, heard) \o <<v>>

\* encode_textual without the loop that clears the flags.
ClearHeard_skipped(via, heard) == via

\* The loop of encode_textual over via.iter_mut().rev().
RECURSIVE ClearHeard(_, _)
ClearHeard(via, heard) ==
    IF Len(via) = 0 THEN <<>>
    ELSE
      LET v == via[Len(via)]
          rest == Slice(via, 0, Len(via) - 1)
      IN  IF v.tag = "Callsign"
          THEN IF ~heard
               THEN ClearHeard(rest, v.heard) \o <<v>>
               ELSE ClearHeard(rest, heard) \o <<[v EXCEPT !.heard = FALSE]>>
          ELSE ClearHeard(rest, heard) \o <<v>>

\* The hops of a textual via path, decoded left to right: [ok, via].
RECURSIVE DecodeVias(_)
DecodeVias(tokens) ==
    IF Len(tokens) = 0 THEN [ok |-> TRUE, via |-> <<>>]
    ELSE
      LET v == Via_decode_textual(tokens[1])
          rest == DecodeVias(Tail(tokens))
      IN  IF v.ok /\ rest.ok THEN [ok |-> TRUE, via |-> <<v.v>> \o rest.via]
          ELSE [ok |-> FALSE, via |-> <<>>]

\* AprsPacket::decode_textual
AprsPacket_decode_textual(s) ==
    LET header_delimiter == Position(s, 58)
        header == Slice(s, 0, header_delimiter)
        body == Slice(s, header_delimiter + 1, Len(s))
        from_delimiter == Position(header, 62)
        from == Callsign_decode_textual(Slice(header, 0, from_delimiter))
        to_and_via == Split(Slice(header, from_delimiter + 1, Len(header)), 44)
        to == Callsign_decode_textual(to_and_via[1])
        via == DecodeVias(Tail(to_and_via))
        data == AprsData_decode(body, to.c)
    IN  IF header_delimiter < 0 THEN DecodeError("InvalidPacket")
        ELSE IF from_delimiter < 0 THEN DecodeError("InvalidPacket")
        ELSE IF ~from.ok THEN DecodeError("InvalidCallsign")
        ELSE IF ~to.ok THEN DecodeError("InvalidCallsign")
        ELSE IF ~via.ok THEN DecodeError("InvalidVia")
        ELSE IF ~data.ok THEN DecodeError(data.err)
        ELSE Packet(from.c, PropagateHeard(via.via, FALSE), data.data)

\* The via hops written by encode_textual, each after a ','.
RECURSIVE EncodeVias(_)
EncodeVias(via) ==
    IF Len(via) = 0 THEN Wrote(<<>>)
    ELSE Then(Wrote(<<44>>), Then(Via_encode_textual(via[1]), EncodeVias(Tail(via))))

\* AprsPacket::encode_textual
AprsPacket_encode_textual(p) ==
    LET via == ClearHeard(p.via, FALSE)
    IN  Then(Callsign_encode_textual(p.from, FALSE),
        Then(Wrote(<<62>>),
        Then(Callsign_encode_textual(AprsData_dest_field(p.data), FALSE),
        Then(EncodeVias(via),
        Then(Wrote(<<58>>),
             AprsData_encode(p.data))))))

\* The loop of decode_ax25 reporting a truncated field as a bad callsign.
RECURSIVE DecodeAx25Vias_wrong_error(_, _, _)
DecodeAx25Vias_wrong_error(data, i, has_more) ==
    IF ~has_more THEN [ok |-> TRUE, err |-> "", via |-> <<>>, i |-> i]
    ELSE IF i + 7 > Len(data) THEN [ok |-> FALSE, err |-> "InvalidCallsign", via |-> <<>>, i |-> i]
    ELSE
      LET v == Callsign_decode_ax25(Slice(data, i, i + 7))
      IN  IF ~v.ok THEN [ok |-> FALSE, err |-> "InvalidCallsign", via |-> <<>>, i |-> i]
          ELSE LET rest == DecodeAx25Vias_wrong_error(data, i + 7, v.has_more)
               IN  [rest EXCEPT !.via = <<ViaCallsign(v.c, v.heard)>> \o rest.via]

\* The loop of decode_ax25 over the via address fields, from offset i:
\* [ok, err, via, i].
RECURSIVE DecodeAx25Vias(_, _, _)
DecodeAx25Vias(data, i, has_more) ==
    IF ~has_more THEN [ok |-> TRUE, err |-> "", via |-> <<>>, i |-> i]
    ELSE IF i + 7 > Len(data) THEN [ok |-> FALSE, err |-> "InvalidPacket", via |-> <<>>, i |-> i]
    ELSE
      LET v == Callsign_decode_ax25(Slice(data, i, i + 7))
      IN  IF ~v.ok THEN [ok |-> FALSE, err |-> "InvalidCallsign", via |-> <<>>, i |-> i]
          ELSE LET rest == DecodeAx25Vias(data, i + 7, v.has_more)
               IN  [rest EXCEPT !.via = <<ViaCallsign(v.c, v.heard)>> \o rest.via]

\* AprsPacket::decode_ax25
AprsPacket_decode_ax25(data) ==
    LET to == Callsign_decode_ax25(Slice(data, 0, 7))
        from == Callsign_decode_ax25(Slice(data, 7, 14))
        vias == DecodeAx25Vias(data, 14, from.has_more)
        i == vias.i
        info == AprsData_decode(IF i + 2 <= Len(data) THEN Slice(data, i + 2, Len(data))
                                ELSE <<>>, to.c)
    IN  IF Len(data) < 7 THEN DecodeError("InvalidPacket")
        ELSE IF ~to.ok THEN DecodeError("InvalidCallsign")
        ELSE IF ~to.has_more THEN DecodeError("InvalidPacket")
        ELSE IF Len(data) < 14 THEN DecodeError("InvalidPacket")
        ELSE IF ~from.ok THEN DecodeError("InvalidCallsign")
        ELSE IF ~vias.ok THEN DecodeError(vias.err)
        ELSE IF ~(i + 2 <= Len(data) /\ Slice(data, i, i + 2) = <<3, 240>>)
        THEN DecodeError("InvalidPacket")
        ELSE IF ~info.ok THEN DecodeError(info.err)
        ELSE Packet(from.c, vias.via, info.data)

\* The via path with its Q-constructs kept.
via_calls_unfiltered(via) == via

\* self.via.iter().filter_map(|v| v.callsign())
via_calls(via) == SelectSeq(via, LAMBDA v : v.tag = "Callsign")

\* The digipeater addresses, each written as if another followed.
RECURSIVE EncodeAx25Vias_all_more(_)
EncodeAx25Vias_all_more(calls) ==
    IF Len(calls) = 0 THEN Wrote(<<>>)
    ELSE Then(Callsign_encode_ax25(calls[1].c, ViaField(calls[1].heard), TRUE),
              EncodeAx25Vias_all_more(Tail(calls)))

\* The digipeater addresses written by encode_ax25: has_more on all but the last.
RECURSIVE EncodeAx25Vias(_)
EncodeAx25Vias(calls) ==
    IF Len(calls) = 0 THEN Wrote(<<>>)
    ELSE IF Len(calls) = 1
    THEN Callsign_encode_ax25(calls[1].c, ViaField(calls[1].heard), FALSE)
    ELSE Then(Callsign_encode_ax25(calls[1].c, ViaField(calls[1].heard), TRUE),
              EncodeAx25Vias(Tail(calls)))

\* AprsPacket::encode_ax25
AprsPacket_encode_ax25(p) ==
    LET calls == via_calls(p.via)
        has_more == Len(calls) # 0
    IN  Then(Callsign_encode_ax25(AprsData_dest_field(p.data), Destination, TRUE),
        Then(Callsign_encode_ax25(p.from, Source, has_more),
        Then(EncodeAx25Vias(calls),
        Then(Wrote(<<3, 240>>),
             AprsData_encode(p.data)))))

(***************************************************************************)
(* The inputs                                                              *)
(***************************************************************************)

\* The longest via path of the textual inputs that vary the whole header,
\* of those that vary the via path alone, of an AX.25 input frame and of a
\* packet the caller builds; the longest via path of the packets built of
\* plain callsign hops alone; the number of values a history holds.
MaxHeaderVia == 1
MaxTextVia == 4
MaxFrameVia == 2
MaxVia == 4
MaxLongVia == 9
MaxSteps == 5

\* The sequences over S of length at most n.
SeqsUpTo(S, n) == UNION {[1..k -> S] : k \in 0..n}

\* The elements of the sequence of byte strings ss, joined by the byte b.
RECURSIVE Join(_, _)
Join(ss, b) ==
    IF Len(ss) = 0 THEN <<>>
    ELSE IF Len(ss) = 1 THEN ss[1]
    ELSE ss[1] \o <<b>> \o Join(Tail(ss), b)

\* Source tokens of a textual header: plain, lower case with an SSID, with
\* a trailing '*', with two, and one with an empty base.
SrcTokens ==
    {B(<<"A">>), B(<<"b", "-", "9">>), B(<<"A", "*">>), B(<<"A", "*", "*">>),
     B(<<"-", "1">>)}
\* Destination tokens: plain, with an SSID of 0, with an SSID written with
\* a leading zero, with a trailing '*', and one of seven characters.
DstTokens ==
    {B(<<"D">>), B(<<"D", "-", "0">>), B(<<"D", "-", "0", "1">>), B(<<"D", "*">>),
     B(<<"A", "B", "C", "D", "X", "Z", "Q">>)}
\* Via tokens: callsigns with and without '*', a Q-construct, a Q-construct
\* followed by '*', an SSID made of a '*', and the empty token.
ViaTokens ==
    {B(<<"X">>), B(<<"X", "*">>), B(<<"b", "-", "1", "*">>), B(<<"q", "A", "C">>),
     B(<<"q", "A", "C", "*">>), B(<<"X", "-", "*", "*">>), <<>>}
\* The via tokens of the inputs that vary the via path alone.
PathTokens ==
    {B(<<"X">>), B(<<"X", "*">>), B(<<"b", "-", "1", "*">>), B(<<"q", "A", "C">>)}
\* Information fields: a status without and with a timestamp (lower and
\* upper case suffix), a message with an id, a message without ':' after
\* the addressee, an unknown identifier, the identifiers of an object and
\* of an item, the empty field.
InfoFields ==
    {B(<<">", "H", "!">>),
     B(<<">", "0", "1", "2", "3", "5", "9", "z", "X">>),
     B(<<">", "0", "1", "2", "3", "5", "9", "Z", "X">>),
     B(<<":", "A", "B", " ", " ", " ", " ", " ", " ", " ", ":", "H", "{", "1">>),
     B(<<":", "A", "B", "C", "D", "X", "Z", "Q", "S", "H">>),
     B(<<"?", "X">>), B(<<";", "X">>), B(<<")", "X">>), <<>>}

\* A line SRC>DST[,VIA...]:INFO
TextLine(src, dst, via, info) == src \o <<62>> \o Join(<<dst>> \o via, 44) \o <<58>> \o info

\* The textual inputs: the lines that vary every part of the header, the
\* lines that vary the via path, a line without ':' and one without '>'.
TextInputs ==
    {TextLine(src, dst, via, info) :
        src \in SrcTokens, dst \in DstTokens,
        via \in SeqsUpTo(ViaTokens, MaxHeaderVia), info \in InfoFields}
    \cup {TextLine(B(<<"A">>), B(<<"D">>), via, B(<<">", "H", "!">>)) :
            via \in SeqsUpTo(PathTokens, MaxTextVia)}
    \cup {B(<<"A", ">", "D">>), B(<<"A", ":", ">">>)}

\* The elements of the sequence of byte strings ss, one after the other.
RECURSIVE Concat(_)
Concat(ss) == IF Len(ss) = 0 THEN <<>> ELSE ss[1] \o Concat(Tail(ss))

\* A 7-byte address field: the characters shifted left by one, and the
\* 7th byte.
Field(chars, flags) == [i \in 1..6 |-> Shl(chars[i], 1)] \o <<flags>>
PadSpaces(chars) == chars \o [i \in 1..(6 - Len(chars)) |-> 32]

\* Destination fields: as the encoder writes them (0xE0), with an SSID,
\* in lower case, with other reserved bits (0x60), marked last (0xE1),
\* and with a space before a letter.
DstFields ==
    {Field(PadSpaces(B(<<"D">>)), 224), Field(PadSpaces(B(<<"D">>)), 234),
     Field(PadSpaces(B(<<"a", "b">>)), 224), Field(PadSpaces(B(<<"D">>)), 96),
     Field(PadSpaces(B(<<"D">>)), 225), Field(PadSpaces(B(<<" ", "D">>)), 224)}
\* Source fields: not last (0x60), last (0x61), with the top bit set
\* (0xE0), with an SSID and last (0x63), and with the low bit of a
\* character byte set.
SrcFields ==
    {Field(PadSpaces(B(<<"A">>)), 96), Field(PadSpaces(B(<<"A">>)), 97),
     Field(PadSpaces(B(<<"A">>)), 224), Field(PadSpaces(B(<<"A", "1">>)), 99),
     [Field(PadSpaces(B(<<"A">>)), 96) EXCEPT ![2] = 65]}
\* Via fields: heard or not, last or not, with an SSID, with the reserved
\* bits clear (0x01).
ViaFields ==
    {Field(PadSpaces(B(<<"X">>)), 96), Field(PadSpaces(B(<<"X">>)), 97),
     Field(PadSpaces(B(<<"X">>)), 225), Field(PadSpaces(B(<<"X", "9">>)), 254),
     Field(PadSpaces(B(<<"X">>)), 1)}
\* What follows the address fields: control and protocol id as the
\* encoder writes them, another protocol id, a lone control byte.
ControlFields == {<<3, 240>>, <<3, 241>>, <<3>>}

\* Their information fields: a status without a timestamp and with one
\* (upper case suffix), an unknown identifier, a message with an id, the
\* identifier of an object, the empty field.
FrameInfoFields ==
    {B(<<">", "H", "!">>),
     B(<<">", "0", "1", "2", "3", "5", "9", "Z", "X">>),
     B(<<"?", "X">>), B(<<";", "X">>), <<>>,
     B(<<":", "A", "B", " ", " ", " ", " ", " ", " ", " ", ":", "H", "{", "1">>)}

\* The AX.25 input frames.
FrameInputs ==
    {dst \o src \o Concat(via) \o ctl \o info :
        dst \in DstFields, src \in SrcFields,
        via \in SeqsUpTo(ViaFields, MaxFrameVia),
        ctl \in ControlFields,
        info \in FrameInfoFields}

\* Via fields of the frames that are cut short: not last, heard and last,
\* last with the low bit of a character byte set.
CutViaFields ==
    {Field(PadSpaces(B(<<"X">>)), 96), Field(PadSpaces(B(<<"X">>)), 225),
     [Field(PadSpaces(B(<<"X">>)), 97) EXCEPT ![1] = 177]}
\* What follows their address fields: control and protocol id as the
\* encoder writes them, another protocol id, the two bytes swapped.
CutControlFields == {<<3, 240>>, <<3, 241>>, <<240, 3>>}
\* Whole frames over these fields.
CutFrameBases ==
    {dst \o src \o Concat(via) \o ctl \o B(<<">", "H", "!">>) :
        dst \in DstFields,
        src \in {Field(PadSpaces(B(<<"A">>)), 96), Field(PadSpaces(B(<<"A">>)), 97)},
        via \in SeqsUpTo(CutViaFields, MaxFrameVia),
        ctl \in CutControlFields}
\* The frames received cut short: every prefix of a frame.
CutFrameInputs == UNION {{Slice(f, 0, n) : n \in 0..Len(f)} : f \in CutFrameBases}

(***************************************************************************)
(* The packets a caller builds                                             *)
(***************************************************************************)

\* Source callsigns: plain, lower case with the largest SSID, and one with
\* a character that is not alphanumeric after one that is.
FromCallsigns ==
    {Callsign_new_no_ssid(B(<<"A">>)),
     Callsign_new_with_ssid(B(<<"b">>), B(<<"1", "5">>)),
     Callsign_new_no_ssid(B(<<"A", "?">>))}
\* The data of a built packet: a status whose destination has an SSID, an
\* unknown packet, a message whose addressee is too long.
BuiltData ==
    {[tag |-> "Status", to |-> Callsign_new_with_ssid(B(<<"D">>), B(<<"3">>)),
      timestamp |-> SomeTimestamp(Timestamp_DDHHMM(1, 2, 3)), comment |-> B(<<"H">>)],
     [tag |-> "Unknown", to |-> Callsign_new_no_ssid(B(<<"D">>))],
     [tag |-> "Message", to |-> Callsign_new_no_ssid(B(<<"D">>)),
      addressee |-> B(<<"A", "B", "C", "D", "X", "Z", "Q", "S", "H", "A">>),
      text |-> <<>>, id |-> NoBytes]}
\* The hops a caller appends: callsigns heard or not, a Q-construct, a
\* callsign whose SSID is out of the AX.25 range.
BuiltHops ==
    {ViaCallsign(Callsign_new_no_ssid(B(<<"X">>)), FALSE),
     ViaCallsign(Callsign_new_with_ssid(B(<<"b">>), B(<<"7">>)), TRUE),
     ViaQConstruct("AR"),
     ViaCallsign(Callsign_new_with_ssid(B(<<"X">>), B(<<"1", "6">>)), TRUE)}
\* The hops of the long via paths: plain callsigns, heard or not.
PlainHops ==
    {ViaCallsign(Callsign_new_no_ssid(B(<<"X">>)), FALSE),
     ViaCallsign(Callsign_new_no_ssid(B(<<"X">>)), TRUE)}

(***************************************************************************)
(* The state machine: hist holds the input and what each call returned     *)
(***************************************************************************)

Text(bytes) == [tag |-> "text", bytes |-> bytes]
Frame(bytes) == [tag |-> "frame", bytes |-> bytes]
\* Err(err) of an encoder, with the bytes it had written to the sink.
EncodeError(fmt, r) == [tag |-> "encode_error", fmt |-> fmt, err |-> r.err, out |-> r.out]

Last == hist[Len(hist)]

\* A line of APRS-IS traffic, an AX.25 frame, a packet the caller builds.
InitText == hist \in {<<Text(b)>> : b \in TextInputs}
InitAx25 == hist \in {<<Frame(f)>> : f \in FrameInputs}
InitCut == hist \in {<<Frame(f)>> : f \in CutFrameInputs}
InitPkt == hist \in {<<Packet(from, <<>>, data)>> : from \in FromCallsigns, data \in BuiltData}
InitLong ==
    hist = <<Packet(Callsign_new_no_ssid(B(<<"A">>)), <<>>,
                    [tag |-> "Status", to |-> Callsign_new_no_ssid(B(<<"D">>)),
                     timestamp |-> NoTimestamp, comment |-> <<>>])>>

\* The caller appends a hop to the via path of the packet it builds.
PushVia(h, max) ==
    /\ Len(hist) = 1
    /\ Last.tag = "packet"
    /\ Len(Last.via) < max
    /\ hist' = <<[Last EXCEPT !.via = Append(@, h)]>>

\* AprsPacket::decode_textual(bytes)
DecodeTextual ==
    /\ Len(hist) < MaxSteps
    /\ Last.tag = "text"
    /\ hist' = Append(hist, AprsPacket_decode_textual(Last.bytes))

\* AprsPacket::decode_ax25(bytes)
DecodeAx25 ==
    /\ Len(hist) < MaxSteps
    /\ Last.tag = "frame"
    /\ hist' = Append(hist, AprsPacket_decode_ax25(Last.bytes))

\* packet.encode_textual(&mut sink), the sink empty
EncodeTextual ==
    /\ Len(hist) < MaxSteps
    /\ Last.tag = "packet"
    /\ LET r == AprsPacket_encode_textual(Last)
       IN  hist' = Append(hist, IF r.ok THEN Text(r.out) ELSE EncodeError("textual", r))

\* packet.encode_ax25(&mut sink), the sink empty
EncodeAx25 ==
    /\ Len(hist) < MaxSteps
    /\ Last.tag = "packet"
    /\ LET r == AprsPacket_encode_ax25(Last)
       IN  hist' = Append(hist, IF r.ok THEN Frame(r.out) ELSE EncodeError("ax25", r))

NextCodec == DecodeTextual \/ DecodeAx25 \/ EncodeTextual \/ EncodeAx25
NextPkt == (\E h \in BuiltHops : PushVia(h, MaxVia)) \/ NextCodec
NextLong == (\E h \in PlainHops : PushVia(h, MaxLongVia)) \/ EncodeAx25 \/ DecodeAx25

SpecText == InitText /\ [][NextCodec]_vars
SpecAx25 == InitAx25 /\ [][NextCodec]_vars
SpecPkt == InitPkt /\ [][NextPkt]_vars
SpecLong == InitLong /\ [][NextLong]_vars
\* Lines and frames received.
SpecWire == (InitText \/ InitAx25) /\ [][NextCodec]_vars
\* Frames received whole or cut short.
SpecCut == InitCut /\ [][NextCodec]_vars
\* Built packets and input frames together.
SpecAir == (InitPkt \/ InitAx25) /\ [][NextPkt]_vars

(***************************************************************************)
(* Reading a textual line and a history, for the properties below          *)
(***************************************************************************)

\* The header of a line (before the first ':') and its information field.
HeaderOf(b) == Slice(b, 0, Position(b, 58))
InfoOf(b) == Slice(b, Position(b, 58) + 1, Len(b))
\* The tokens of the header: the source, the destination, the via hops.
SrcTokenOf(b) == Slice(HeaderOf(b), 0, Position(HeaderOf(b), 62))
PathTokensOf(b) == Split(Slice(HeaderOf(b), Position(HeaderOf(b), 62) + 1, Len(HeaderOf(b))), 44)
DstTokenOf(b) == PathTokensOf(b)[1]
ViaTokensOf(b) == Tail(PathTokensOf(b))
EndsWithStar(t) == Len(t) > 0 /\ t[Len(t)] = 42
IsQToken(t) == QConstruct_decode_textual(t).ok

\* The history starts with the values of the given kinds, in this order.
Went(tags) == Len(hist) >= Len(tags) /\ \A i \in 1..Len(tags) : hist[i].tag = tags[i]

\* The data codec reproduces the information field `info` from `data`, and
\* the destination it writes is the decoded one.
InfoReproduced(info, data, to) ==
    /\ AprsData_encode(data).ok
    /\ AprsData_encode(data).out = info
    /\ AprsData_dest_field(data) = to

\* The heard flags of the callsign hops of a via path, left to right.
HeardFlags(via) == [i \in 1..Len(via_calls(via)) |-> via_calls(via)[i].heard]

(***************************************************************************)
(* C1  Textual round trip                                                  *)
(***************************************************************************)

C1_Canonical(b, p) ==
    /\ ~EndsWithStar(SrcTokenOf(b))
    /\ ~EndsWithStar(DstTokenOf(b))
    /\ Cardinality({i \in 1..Len(ViaTokensOf(b)) : EndsWithStar(ViaTokensOf(b)[i])}) <= 1
    /\ InfoReproduced(InfoOf(b), p.data, Callsign_decode_textual(DstTokenOf(b)).c)

FieldOf(f, j) == Slice(f, 7 * (j - 1), 7 * j)
FlagsOf(f, j) == f[7 * j]
\* What follows n address fields and the two bytes after them.
InfoAfter(f, n) == Slice(f, 7 * n + 2, Len(f))

\* C2 as stated: whenever decode_ax25 accepts a frame f and encode_ax25
\* encodes the decoded packet, the bytes written are exactly f.
C2_Ax25RoundTrip ==
    Went(<<"frame", "packet", "frame">>) => hist[3].bytes = hist[1].bytes

\* The frames the round trip reproduces: no lower case letter among the
\* shifted callsign characters, bits 7..5 of the 7th byte are 111 in the
\* destination and 011 in the source, bits 6..5 are 11 in every via field,
\* and the data codec reproduces the information field.
C2_Canonical(f, p) ==
    LET n == Len(p.via) + 2
    IN  /\ \A j \in 1..n : \A i \in 1..6 :
              ToAsciiUppercase(Shr(FieldOf(f, j)[i], 1)) = Shr(FieldOf(f, j)[i], 1)
        /\ Shr(FlagsOf(f, 1), 5) = 7
        /\ Shr(FlagsOf(f, 2), 5) = 3
        /\ \A j \in 3..n : BitAnd(FlagsOf(f, j), 96) = 96
        /\ InfoReproduced(InfoAfter(f, n), p.data, Callsign_decode_ax25(FieldOf(f, 1)).c)

\* C2 amended: for every frame f that decode_ax25 accepts, whose shifted
\* callsign characters hold no lower case letter, whose destination has bits
\* 7..5 of its 7th byte set to 111, whose source has them set to 011, whose
\* via fields have bits 6..5 set to 11, and whose information field the data
\* codec reproduces, encode_ax25 of the decoded packet writes exactly f.
C2_Ax25RoundTripCanonical ==
    (Went(<<"frame", "packet", "frame">>) /\ C2_Canonical(hist[1].bytes, hist[2]))
        => hist[3].bytes = hist[1].bytes

\* A canonical frame with two via fields, the first heard and with an SSID,
\* has made the round trip.
C2_Witness ==
    /\ Went(<<"frame", "packet", "frame">>)
    /\ C2_Canonical(hist[1].bytes, hist[2])
    /\ Len(hist[2].via) = 2
    /\ hist[2].via[1].heard
    /\ hist[2].via[1].c.ssid.some
    /\ hist[3].bytes = hist[1].bytes

(***************************************************************************)
(* C3  Textual decode, encode, decode                                      *)
(***************************************************************************)

\* C3: when decode_textual accepts b as p and encode_textual(p) writes b',
\* decode_textual(b') succeeds and returns a packet equal to p.
C3_TwoStepFixedPoint ==
    Went(<<"text", "packet", "text">>) /\ Len(hist) >= 4 => hist[4] = hist[2]

(***************************************************************************)
(* C4  Textual to AX.25 and back                                           *)
(***************************************************************************)

Upper(t) == [i \in 1..Len(t) |-> ToAsciiUppercase(t[i])]
UpperAll(ts) == [i \in 1..Len(ts) |-> Upper(ts[i])]

\* The line b with its Q-construct hops removed and its callsigns in upper
\* case.
C4_Expected(b) ==
    TextLine(Upper(SrcTokenOf(b)), Upper(DstTokenOf(b)),
             UpperAll(SelectSeq(ViaTokensOf(b), LAMBDA t : ~IsQToken(t))),
             InfoOf(b))

\* decode_textual, encode_ax25, decode_ax25, encode_textual on the line t
\* give the frame f and the line t again.
C4_Again(t, f) ==
    LET p1 == AprsPacket_decode_textual(t)
        f1 == AprsPacket_encode_ax25(p1)
        p2 == AprsPacket_decode_ax25(f1.out)
        t2 == AprsPacket_encode_textual(p2)
    IN  /\ p1.tag = "packet"
        /\ f1.ok /\ f1.out = f
        /\ p2.tag = "packet"
        /\ t2.ok /\ t2.out = t

C4_PlainSsid(c) ==
    ~c.ssid.some
    \/ /\ ParseU8(c.ssid.v).ok
       /\ ParseU8(c.ssid.v).v # 0
       /\ FormatU8(ParseU8(c.ssid.v).v) = c.ssid.v

C4_Canonical(b, p) ==
    /\ C1_Canonical(b, p)
    /\ C4_PlainSsid(p.from)
    /\ C4_PlainSsid(AprsData_dest_field(p.data))
    /\ \A i \in 1..Len(p.via) : p.via[i].tag = "Callsign" => C4_PlainSsid(p.via[i].c)

C5_HeardPropagation ==
    Went(<<"text", "packet">>) =>
        LET toks == ViaTokensOf(hist[1].bytes)
            via == hist[2].via
        IN  /\ Len(via) = Len(toks)
            /\ \A i \in 1..Len(via) :
                 via[i].tag = "Callsign" =>
                    (via[i].heard <=> \E j \in i..Len(toks) : EndsWithStar(toks[j]))

\* The line with the via path X,X*,X*,X has been decoded, to the heard
\* flags T, T, T, F.
C5_Witness ==
    /\ Went(<<"text", "packet">>)
    /\ ViaTokensOf(hist[1].bytes) = <<B(<<"X">>), B(<<"X", "*">>), B(<<"X", "*">>), B(<<"X">>)>>
    /\ HeardFlags(hist[2].via) = <<TRUE, TRUE, TRUE, FALSE>>

(***************************************************************************)
(* C6  '*' markers written by encode_textual                               *)
(***************************************************************************)

\* hist[k] is a packet and hist[k + 1] what encode_textual, or encode_ax25,
\* wrote for it.
EncodedTextual(k) == k < Len(hist) /\ hist[k].tag = "packet" /\ hist[k + 1].tag = "text"
EncodedAx25(k) == k < Len(hist) /\ hist[k].tag = "packet" /\ hist[k + 1].tag = "frame"
DecodedAx25(k) == k < Len(hist) /\ hist[k].tag = "frame" /\ hist[k + 1].tag = "packet"

\* The callsign hops of a via path, in order.
CallsignHops(via) == SelectSeq(via, LAMBDA v : v.tag = "Callsign")

\* The nearest callsign hop to the right of hop i, if any, is heard.
C6_NextCallsignHeard(via, i) ==
    \E j \in (i + 1)..Len(via) :
        /\ via[j].tag = "Callsign" /\ via[j].heard
        /\ \A k \in (i + 1)..(j - 1) : via[k].tag # "Callsign"

\* C6 as stated: encode_textual writes a '*' after a callsign hop exactly
\* when the hop is heard and the next callsign hop to its right, if any, is
\* not heard.
C6_HeardCollapse ==
    \A k \in 1..Len(hist) : EncodedTextual(k) =>
        LET via == hist[k].via
            toks == ViaTokensOf(hist[k + 1].bytes)
        IN  /\ Len(toks) = Len(via)
            /\ \A i \in 1..Len(via) :
                 via[i].tag = "Callsign" =>
                    (EndsWithStar(toks[i]) <=> via[i].heard /\ ~C6_NextCallsignHeard(via, i))

\* C6 amended: encode_textual writes a '*' after a callsign hop exactly when
\* the hop is heard and no callsign hop to its right is heard: only the
\* rightmost heard hop of the whole path keeps its '*'.
C6_OnlyRightmostStar ==
    \A k \in 1..Len(hist) : EncodedTextual(k) =>
        LET via == hist[k].via
            toks == ViaTokensOf(hist[k + 1].bytes)
        IN  /\ Len(toks) = Len(via)
            /\ \A i \in 1..Len(via) :
                 via[i].tag = "Callsign" =>
                    (EndsWithStar(toks[i]) <=>
                        /\ via[i].heard
                        /\ \A j \in (i + 1)..Len(via) :
                              via[j].tag = "Callsign" => ~via[j].heard)

\* A path with the heard flags T, T, T, F has been written with one '*',
\* on its third hop.
C6_Witness ==
    /\ EncodedTextual(1)
    /\ Len(hist[1].via) = 4
    /\ HeardFlags(hist[1].via) = <<TRUE, TRUE, TRUE, FALSE>>
    /\ {i \in 1..4 : EndsWithStar(ViaTokensOf(hist[2].bytes)[i])} = {3}

(***************************************************************************)
(* C7  End of the address list                                             *)
(***************************************************************************)

\* C7: in a frame encode_ax25 produces, with n callsign via hops, bit 0 of
\* the 7th byte of the address fields 1..n+2 is set in the last one and in
\* no other.
C7_EndOfAddressList ==
    \A k \in 1..Len(hist) : EncodedAx25(k) =>
        LET n == Len(CallsignHops(hist[k].via)) + 2
            f == hist[k + 1].bytes
        IN  /\ Len(f) >= 7 * n
            /\ \A j \in 1..n : (BitAnd(FlagsOf(f, j), 1) = 1) <=> (j = n)

\* Frames have been produced for a path without callsign hops and for one
\* with several: the source ends the first list, a via field the second.
C7_Witness ==
    /\ EncodedAx25(1)
    /\ Len(CallsignHops(hist[1].via)) >= 2
    /\ Len(CallsignHops(hist[1].via)) < Len(hist[1].via)
    /\ BitAnd(FlagsOf(hist[2].bytes, 2), 1) = 0
    /\ BitAnd(FlagsOf(hist[2].bytes, Len(CallsignHops(hist[1].via)) + 2), 1) = 1

(***************************************************************************)
(* C8  Bit 7 of the 7th address byte                                       *)
(***************************************************************************)

\* C8 as stated: in a frame encode_ax25 produces, bit 7 of the 7th byte of
\* the destination and bit 7 of the 7th byte of the source are 0.
C8_TopBitClear ==
    \A k \in 1..Len(hist) : EncodedAx25(k) =>
        /\ BitAnd(FlagsOf(hist[k + 1].bytes, 1), 128) = 0
        /\ BitAnd(FlagsOf(hist[k + 1].bytes, 2), 128) = 0

\* C8 amended: in a frame encode_ax25 produces, bit 7 of the 7th byte of the
\* source is 0, bit 7 of the 7th byte of the destination is 1 whatever the
\* packet (the byte is 0xE0 | ssid << 1), and bit 7 of the 7th byte of a via
\* field is that hop's heard flag.
C8_TopBit ==
    \A k \in 1..Len(hist) : EncodedAx25(k) =>
        LET calls == CallsignHops(hist[k].via)
            f == hist[k + 1].bytes
        IN  /\ BitAnd(FlagsOf(f, 2), 128) = 0
            /\ BitAnd(FlagsOf(f, 1), 128) = 128
            /\ BitAnd(FlagsOf(f, 1), 225) = 224
            /\ \A j \in 1..Len(calls) :
                  (BitAnd(FlagsOf(f, j + 2), 128) = 128) <=> calls[j].heard

\* A frame has been produced for a destination with an SSID and a path with
\* a heard hop and one that is not.
C8_Witness ==
    /\ EncodedAx25(1)
    /\ AprsData_dest_field(hist[1].data).ssid.some
    /\ \E i, j \in 1..Len(hist[1].via) :
          /\ hist[1].via[i].tag = "Callsign" /\ hist[1].via[i].heard
          /\ hist[1].via[j].tag = "Callsign" /\ ~hist[1].via[j].heard
    /\ FlagsOf(hist[2].bytes, 1) = 230

(***************************************************************************)
(* C9  Q-constructs and AX.25                                              *)
(***************************************************************************)

\* C9: encode_ax25 writes one 7-byte field for each callsign hop, in order,
\* with the hop's callsign and heard flag, and nothing for a Q-construct:
\* the control field 0x03 0xF0 follows the field of the last callsign hop,
\* or the source when there is none, which is then marked last.  Every hop
\* decode_ax25 returns is a callsign hop.
C9_QConstructsDropped ==
    \A k \in 1..Len(hist) :
        /\ EncodedAx25(k) =>
             LET calls == CallsignHops(hist[k].via)
                 n == Len(calls) + 2
                 f == hist[k + 1].bytes
             IN  /\ Len(f) >= 7 * n + 2
                 /\ Slice(f, 7 * n, 7 * n + 2) = <<3, 240>>
                 /\ InfoAfter(f, n) = AprsData_encode(hist[k].data).out
                 /\ \A j \in 1..Len(calls) :
                       /\ Slice(FieldOf(f, j + 2), 0, 6)
                            = [i \in 1..6 |-> Shl(PadSpaces(Upper(calls[j].c.call))[i], 1)]
                       /\ (BitAnd(FlagsOf(f, j + 2), 128) = 128) <=> calls[j].heard
                 /\ (Len(calls) = 0 => BitAnd(FlagsOf(f, 2), 1) = 1)
        /\ DecodedAx25(k) =>
             \A i \in 1..Len(hist[k + 1].via) : hist[k + 1].via[i].tag = "Callsign"

\* A frame has been produced for a path made of Q-constructs alone: it has
\* no via field and its source is marked last.
C9_Witness ==
    /\ EncodedAx25(1)
    /\ Len(hist[1].via) >= 2
    /\ CallsignHops(hist[1].via) = <<>>
    /\ Slice(hist[2].bytes, 14, 16) = <<3, 240>>
    /\ BitAnd(FlagsOf(hist[2].bytes, 2), 1) = 1

(***************************************************************************)
(* C10  Number of via fields of a frame                                    *)
(***************************************************************************)

\* The number of via address fields of an accepted or produced frame: the
\* address fields up to the first one marked last, less two.
RECURSIVE ViaFieldCount(_, _)
ViaFieldCount(f, j) ==
    IF 7 * j > Len(f) \/ BitAnd(FlagsOf(f, j), 1) = 1 THEN j - 2
    ELSE ViaFieldCount(f, j + 1)

\* C10: a frame that encode_ax25 produces, or that decode_ax25 accepts, has
\* at most 8 via address fields (an address field of at most 70 bytes).
C10_AtMostEightVias ==
    \A k \in 1..Len(hist) :
        (EncodedAx25(k) \/ DecodedAx25(k)) =>
            LET f == IF EncodedAx25(k) THEN hist[k + 1].bytes ELSE hist[k].bytes
            IN  ViaFieldCount(f, 1) <= 8 /\ 7 * (ViaFieldCount(f, 1) + 2) <= 70

(***************************************************************************)
(* C11  Frames decode_ax25 rejects as InvalidPacket                        *)
(***************************************************************************)

\* hist[k] is a frame and hist[k + 1] what decode_ax25 returned for it.
Ax25Decoded(k) == k < Len(hist) /\ hist[k].tag = "frame"

\* The address fields of a frame, read as decode_ax25 reads them: n whole
\* fields, the last of them marked last (closed) or followed by a field
\* that is missing or cut short.
RECURSIVE AddressChain(_, _)
AddressChain(f, j) ==
    IF 7 * j > Len(f) THEN [n |-> j - 1, closed |-> FALSE]
    ELSE IF BitAnd(FlagsOf(f, j), 1) = 1 THEN [n |-> j, closed |-> TRUE]
    ELSE AddressChain(f, j + 1)

\* The destination is marked last; a field that was announced is cut
\* short; the two bytes after the last field are not 0x03 0xF0.
C11_DestinationLast(f) == AddressChain(f, 1).closed /\ AddressChain(f, 1).n = 1
C11_Truncated(f) == ~AddressChain(f, 1).closed /\ AddressChain(f, 1).n >= 1
C11_BadControl(f) ==
    LET n == AddressChain(f, 1).n
    IN  /\ AddressChain(f, 1).closed /\ n >= 2
        /\ \/ Len(f) < 7 * n + 2
           \/ Slice(f, 7 * n, 7 * n + 2) # <<3, 240>>
C11_Case(f) == C11_DestinationLast(f) \/ C11_Truncated(f) \/ C11_BadControl(f)

\* Every whole address field of the frame holds a callsign.
C11_AddressesDecode(f) ==
    \A j \in 1..AddressChain(f, 1).n : Callsign_decode_ax25(FieldOf(f, j)).ok

\* C11 as stated: decode_ax25 returns InvalidPacket whenever the two bytes
\* after the last address field are not 0x03 0xF0 (or are missing), the
\* destination is marked last, or an announced address field is cut short.
C11_InvalidPacket ==
    \A k \in 1..Len(hist) : (Ax25Decoded(k) /\ C11_Case(hist[k].bytes)) =>
        hist[k + 1] = DecodeError("InvalidPacket")

\* C11 amended: in each of these cases decode_ax25 returns no packet, and
\* the error is InvalidPacket when every whole address field of the frame
\* holds a callsign (InvalidCallsign is returned for the first field that
\* does not, before the frame's shape is looked at).
C11_InvalidPacketAfterCallsigns ==
    \A k \in 1..Len(hist) : (Ax25Decoded(k) /\ C11_Case(hist[k].bytes)) =>
        /\ hist[k + 1].tag = "decode_error"
        /\ C11_AddressesDecode(hist[k].bytes) => hist[k + 1] = DecodeError("InvalidPacket")
        /\ ~C11_AddressesDecode(hist[k].bytes) => hist[k + 1] = DecodeError("InvalidCallsign")

\* A frame whose second via field is cut short after a first one that
\* decodes has been rejected as InvalidPacket.
C11_Witness ==
    /\ Ax25Decoded(1)
    /\ C11_Truncated(hist[1].bytes)
    /\ AddressChain(hist[1].bytes, 1).n = 3
    /\ Len(hist[1].bytes) > 21
    /\ C11_AddressesDecode(hist[1].bytes)
    /\ hist[2] = DecodeError("InvalidPacket")

(***************************************************************************)
(* C12  The variant AprsData::decode selects                               *)
(***************************************************************************)

\* hist[k] is a line or a frame and hist[k + 1] the packet decoded from it.
Decoded(k) ==
    k < Len(hist) /\ hist[k].tag \in {"text", "frame"} /\ hist[k + 1].tag = "packet"

\* The information field of a line or of a frame.
InfoFieldOf(w) ==
    IF w.tag = "text" THEN InfoOf(w.bytes)
    ELSE InfoAfter(w.bytes, AddressChain(w.bytes, 1).n)

\* The variant the claim gives for a first byte.
C12_Variant(first) ==
    CASE first = 58 -> "Message"
      [] first \in {33, 47, 61, 64} -> "Position"
      [] first = 62 -> "Status"
      [] first = 59 -> "Object"
      [] first = 41 -> "Item"
      [] first \in {28, 96, 29, 39} -> "MicE"
      [] OTHER -> "Unknown"

\* C12: the packet decode_textual or decode_ax25 returns holds the variant
\* the first byte of the information field selects: ':' Message, '!' '/'
\* '=' '@' Position, '>' Status, ';' Object, ')' Item, 0x1c, 0x1d, a
\* backquote or an apostrophe MicE.
C12_Dispatch ==
    \A k \in 1..Len(hist) :
        (Decoded(k) /\ Len(InfoFieldOf(hist[k])) > 0) =>
            hist[k + 1].data.tag = C12_Variant(InfoFieldOf(hist[k])[1])

(***************************************************************************)
(* C13  Unknown packets                                                    *)
(***************************************************************************)

\* The first bytes the claim's table knows.
C13_KnownIdentifiers == {58, 33, 47, 61, 64, 62, 59, 41, 28, 96, 29, 39}
C13_UnknownInfo(info) == Len(info) = 0 \/ info[1] \notin C13_KnownIdentifiers

\* The header of a line, or the address and control fields of a frame,
\* decode.
C13_HeaderDecodes(w) ==
    IF w.tag = "text"
    THEN /\ Position(w.bytes, 58) >= 0
         /\ Position(HeaderOf(w.bytes), 62) >= 0
         /\ Callsign_decode_textual(SrcTokenOf(w.bytes)).ok
         /\ Callsign_decode_textual(DstTokenOf(w.bytes)).ok
         /\ \A i \in 1..Len(ViaTokensOf(w.bytes)) :
               Via_decode_textual(ViaTokensOf(w.bytes)[i]).ok
    ELSE LET a == AddressChain(w.bytes, 1)
         IN  /\ a.closed /\ a.n >= 2
             /\ C11_AddressesDecode(w.bytes)
             /\ Len(w.bytes) >= 7 * a.n + 2
             /\ Slice(w.bytes, 7 * a.n, 7 * a.n + 2) = <<3, 240>>

\* The destination, the source and the number of hops a line or frame
\* names.
C13_Header(w) ==
    IF w.tag = "text"
    THEN [to |-> Callsign_decode_textual(DstTokenOf(w.bytes)).c,
          from |-> Callsign_decode_textual(SrcTokenOf(w.bytes)).c,
          hops |-> Len(ViaTokensOf(w.bytes))]
    ELSE [to |-> Callsign_decode_ax25(FieldOf(w.bytes, 1)).c,
          from |-> Callsign_decode_ax25(FieldOf(w.bytes, 2)).c,
          hops |-> AddressChain(w.bytes, 1).n - 2]

\* A line or frame whose information field is empty or starts with an
\* unknown identifier is decoded to an Unknown packet that carries the
\* destination, with the source and the via path.
C13_DecodedUnknown ==
    \A k \in 1..Len(hist) :
        (/\ k < Len(hist) /\ hist[k].tag \in {"text", "frame"}
         /\ C13_HeaderDecodes(hist[k])
         /\ C13_UnknownInfo(InfoFieldOf(hist[k]))) =>
            /\ hist[k + 1].tag = "packet"
            /\ hist[k + 1].data = [tag |-> "Unknown", to |-> C13_Header(hist[k]).to]
            /\ hist[k + 1].from = C13_Header(hist[k]).from
            /\ Len(hist[k + 1].via) = C13_Header(hist[k]).hops

\* hist[k] is an Unknown packet and hist[k + 1] what an encoder returned.
C13_EncodedUnknown(k) ==
    k < Len(hist) /\ hist[k].tag = "packet" /\ hist[k].data.tag = "Unknown"

\* C13 as stated: such a line or frame is decoded to an Unknown packet, and
\* encode_textual and encode_ax25 of an Unknown packet return InvalidData.
C13_UnknownNotEncoded ==
    /\ C13_DecodedUnknown
    /\ \A k \in 1..Len(hist) : C13_EncodedUnknown(k) =>
          hist[k + 1].tag = "encode_error" /\ hist[k + 1].err = "InvalidData"

\* The callsigns encode_ax25 writes are all ones it can write.
C13_Ax25Callsigns(p) ==
    /\ Callsign_encode_ax25(AprsData_dest_field(p.data), Destination, TRUE).ok
    /\ Callsign_encode_ax25(p.from, Source, TRUE).ok
    /\ \A i \in 1..Len(p.via) :
          p.via[i].tag = "Callsign" =>
              Callsign_encode_ax25(p.via[i].c, ViaField(p.via[i].heard), TRUE).ok

\* C13 amended: such a line or frame is decoded to an Unknown packet;
\* neither encoder encodes an Unknown packet; encode_textual returns
\* InvalidData; encode_ax25 returns InvalidData when it can write the
\* destination, the source and every callsign hop, and InvalidCallsign for
\* the first of them it cannot write.
C13_UnknownRefused ==
    /\ C13_DecodedUnknown
    /\ \A k \in 1..Len(hist) : C13_EncodedUnknown(k) =>
          /\ hist[k + 1].tag = "encode_error"
          /\ (hist[k + 1].fmt = "textual" \/ C13_Ax25Callsigns(hist[k]))
                => hist[k + 1].err = "InvalidData"
          /\ (hist[k + 1].fmt = "ax25" /\ ~C13_Ax25Callsigns(hist[k]))
                => hist[k + 1].err = "InvalidCallsign"

\* A line with an empty information field and two hops has been decoded to
\* an Unknown packet, which an encoder has refused with InvalidData.
C13_Witness ==
    /\ Went(<<"text", "packet", "encode_error">>)
    /\ InfoOf(hist[1].bytes) = <<>>
    /\ hist[2].data.tag = "Unknown"
    /\ Len(hist[2].via) >= 1
    /\ hist[3].err = "InvalidData"

(***************************************************************************)
(* C14  Callsigns with an empty base or an empty SSID                      *)
(***************************************************************************)

\* A callsign token without its trailing '*', and the number of '-' in it.
C14_Bare(t) == IF EndsWithStar(t) THEN Slice(t, 0, Len(t) - 1) ELSE t
C14_Dashes(t) == Cardinality({i \in 1..Len(t) : t[i] = 45})

\* The token has an empty base, a '-' followed by nothing, or two '-'.
C14_Malformed(t) ==
    LET b == C14_Bare(t)
    IN  \/ Len(b) = 0
        \/ b[1] = 45
        \/ b[Len(b)] = 45
        \/ C14_Dashes(b) > 1

\* The callsign tokens of a line: the source, the destination and the via
\* tokens that are no Q-construct.
C14_CallsignTokens(b) ==
    {SrcTokenOf(b), DstTokenOf(b)}
        \cup {ViaTokensOf(b)[i] : i \in {j \in 1..Len(ViaTokensOf(b)) : ~IsQToken(ViaTokensOf(b)[j])}}

\* The callsigns of a packet.
C14_Callsigns(p) ==
    {p.from, AprsData_dest_field(p.data)}
        \cup {p.via[i].c : i \in {j \in 1..Len(p.via) : p.via[j].tag = "Callsign"}}

\* C14: decode_textual rejects a line that holds a callsign token with an
\* empty base, with a '-' followed by an empty SSID or with more than one
\* '-', and no packet it returns holds a callsign with an empty base or a
\* present but empty SSID.
C14_CallsignInvariant ==
    \A k \in 1..Len(hist) :
        (/\ k < Len(hist) /\ hist[k].tag = "text"
         /\ Position(hist[k].bytes, 58) >= 0
         /\ Position(HeaderOf(hist[k].bytes), 62) >= 0) =>
            /\ (\E t \in C14_CallsignTokens(hist[k].bytes) : C14_Malformed(t))
                  => hist[k + 1].tag = "decode_error"
            /\ hist[k + 1].tag = "packet" =>
                  \A c \in C14_Callsigns(hist[k + 1]) :
                      Len(c.call) > 0 /\ (c.ssid.some => Len(c.ssid.v) > 0)

(***************************************************************************)
(* Callsign::decode_ax25 and Callsign::encode_ax25 called on their own     *)
(***************************************************************************)

\* Shifted character bytes of the 7-byte fields given to decode_ax25: a
\* letter, a lower case letter, a digit, a space, a '?' and a letter with
\* the low bit set.
FieldCharBytes == {Shl(65, 1), Shl(98, 1), Shl(57, 1), Shl(32, 1), Shl(63, 1), Shl(65, 1) + 1}
\* The characters that end a field: spaces, or a digit after a space.
FieldTails == {<<64, 64, 64>>, <<64, 114, 64>>, <<114, 64, 64>>}
\* 7th bytes: every SSID, heard and last bit with the reserved bits of a
\* source or via field, and some with other reserved bits.
FieldFlagBytes ==
    {96 + 2 * ssid + 128 * h + l : ssid \in {0, 1, 9, 15}, h \in {0, 1}, l \in {0, 1}}
        \cup {0, 1, 30, 224, 255}
FieldInputs ==
    {<<a, b, c>> \o t \o <<s>> :
        a \in FieldCharBytes, b \in FieldCharBytes, c \in FieldCharBytes,
        t \in FieldTails, s \in FieldFlagBytes}
    \cup {<<>>, <<130, 64, 64, 64, 64, 96>>, <<130, 64, 64, 64, 64, 64, 96, 96>>}

\* The callsigns given to encode_ax25: bases that are empty, short, lower
\* case, of 6 and of 7 characters, with a character that is not
\* alphanumeric, not ASCII; SSIDs absent, in range, out of range, with a
\* sign, with a leading zero, empty, not a number.
EncodedBases ==
    {<<>>, B(<<"A">>), B(<<"a", "b", "9">>), B(<<"A", "B", "C", "D", "E", "F">>),
     B(<<"A", "B", "C", "D", "E", "F", "G">>), B(<<"A", "?">>), B(<<"A", " ", "B">>),
     <<65, 195, 169>>, B(<<"A", "B", "C", "D", "E", "F", "?">>)}
EncodedSsids ==
    {NoSsid}
        \cup {SomeSsid(s) :
                s \in {B(<<"0">>), B(<<"7">>), B(<<"1", "5">>), B(<<"1", "6">>),
                       B(<<"+", "5">>), B(<<"0", "5">>), B(<<"2", "5", "6">>),
                       B(<<"-", "1">>), <<>>, B(<<"1", "a">>), B(<<"0", "0", "1", "6">>)}}
CallsignFields == {Destination, Source, ViaField(FALSE), ViaField(TRUE)}
CallsignInputs ==
    {[tag |-> "callsign", c |-> [call |-> call, ssid |-> ssid],
      field |-> field, has_more |-> has_more] :
        call \in EncodedBases, ssid \in EncodedSsids,
        field \in CallsignFields, has_more \in BOOLEAN}

InitCallsign ==
    hist \in {<<[tag |-> "field", bytes |-> f]>> : f \in FieldInputs}
                \cup {<<c>> : c \in CallsignInputs}

\* Callsign::decode_ax25(data)
DecodeCallsignAx25 ==
    /\ Len(hist) = 1
    /\ Last.tag = "field"
    /\ hist' = Append(hist, [tag |-> "decoded"] @@ Callsign_decode_ax25(Last.bytes))

\* callsign.encode_ax25(&mut sink, field, has_more), the sink empty
EncodeCallsignAx25 ==
    /\ Len(hist) = 1
    /\ Last.tag = "callsign"
    /\ hist' = Append(hist, [tag |-> "encoded"]
                               @@ Callsign_encode_ax25(Last.c, Last.field, Last.has_more))

NextCallsign == DecodeCallsignAx25 \/ EncodeCallsignAx25
SpecCallsign == InitCallsign /\ [][NextCallsign]_vars

(***************************************************************************)
(* C15  Callsign::decode_ax25                                              *)
(***************************************************************************)

\* The character a byte of the field holds, and the field cannot be read:
\* a low bit is set, a character is neither alphanumeric nor a space, or a
\* character other than a space follows a space.
C15_Char(f, i) == f[i] \div 2
C15_Alnum(c) ==
    (c >= 48 /\ c <= 57) \/ (c >= 65 /\ c <= 90) \/ (c >= 97 /\ c <= 122)
C15_Unreadable(f) ==
    \E i \in 1..6 :
        \/ f[i] % 2 = 1
        \/ (C15_Char(f, i) # 32 /\ ~C15_Alnum(C15_Char(f, i)))
        \/ (C15_Char(f, i) # 32 /\ \E j \in 1..(i - 1) : C15_Char(f, j) = 32)

\* The base the field holds: its characters before the first space, in
\* upper case.
C15_Base(f) ==
    LET n == Cardinality({i \in 1..6 : C15_Char(f, i) # 32})
    IN  [i \in 1..n |->
            IF C15_Char(f, i) >= 97 THEN C15_Char(f, i) - 32 ELSE C15_Char(f, i)]

\* The decimal digits of a number from 1 to 15.
C15_Decimal(n) == IF n < 10 THEN <<48 + n>> ELSE <<49, 48 + (n - 10)>>

\* C15: on a 7-byte field decode_ax25 returns None when a character byte
\* has its low bit set, a character that is no space follows a space, or a
\* character is neither alphanumeric nor a space; otherwise it returns the
\* base in upper case, no SSID when bits 4..1 of the 7th byte are 0 and
\* their decimal value otherwise, heard = bit 7 and has_more = (bit 0 = 0).
C15_DecodeAx25Field ==
    (Len(hist) = 2 /\ hist[1].tag = "field" /\ Len(hist[1].bytes) = 7) =>
        LET f == hist[1].bytes
            ssid == (f[7] \div 2) % 16
        IN  IF C15_Unreadable(f) THEN ~hist[2].ok
            ELSE /\ hist[2].ok
                 /\ hist[2].c.call = C15_Base(f)
                 /\ hist[2].c.ssid.some = (ssid # 0)
                 /\ (ssid # 0 => hist[2].c.ssid.v = C15_Decimal(ssid))
                 /\ hist[2].heard = (f[7] >= 128)
                 /\ hist[2].has_more = (f[7] % 2 = 0)

\* A field holding "AB9" in mixed case, SSID 15, heard and not last has
\* been decoded.
C15_Witness ==
    /\ Len(hist) = 2 /\ hist[1].tag = "field"
    /\ hist[1].bytes = <<130, 196, 114, 64, 64, 64, 254>>
    /\ hist[2].ok
    /\ hist[2].c = [call |-> <<65, 66, 57>>, ssid |-> SomeSsid(<<49, 53>>)]
    /\ hist[2].heard /\ hist[2].has_more

(***************************************************************************)
(* C16  Callsign::encode_ax25                                              *)
(***************************************************************************)

\* The SSID is a decimal number from 0 to 15 as str::parse::<u8> reads one:
\* digits, after an optional '+', leading zeros allowed.
C16_DecimalSsid(s) ==
    LET d == IF Len(s) > 0 /\ s[1] = 43 THEN SubSeq(s, 2, Len(s)) ELSE s
    IN  /\ Len(d) > 0
        /\ \A i \in 1..Len(d) : d[i] >= 48 /\ d[i] <= 57
        /\ \A i \in 1..(Len(d) - 2) : d[i] = 48
        /\ (Len(d) >= 2 /\ d[Len(d) - 1] # 48) =>
              (d[Len(d) - 1] = 49 /\ d[Len(d)] <= 53)
C16_SsidValue(c) ==
    IF ~c.ssid.some THEN 0
    ELSE LET s == c.ssid.v
         IN  (IF Len(s) >= 2 /\ s[Len(s) - 1] = 49 THEN 10 ELSE 0) + (s[Len(s)] - 48)

C16_Invalid(c) ==
    \/ Len(c.call) > 6
    \/ \E i \in 1..Len(c.call) : ~C15_Alnum(c.call[i])
    \/ (c.ssid.some /\ ~C16_DecimalSsid(c.ssid.v))

\* C16: encode_ax25 returns InvalidCallsign when the base holds a byte that
\* is not alphanumeric, is longer than 6 bytes, or the SSID is present and
\* no decimal number from 0 to 15; otherwise it writes 7 bytes: the base in
\* upper case shifted left by one, spaces shifted up to six, and the byte
\* of the flags and the SSID.
C16_EncodeAx25Field ==
    (Len(hist) = 2 /\ hist[1].tag = "callsign") =>
        LET c == hist[1].c
            out == hist[2].out
        IN  IF C16_Invalid(c)
            THEN ~hist[2].ok /\ hist[2].err = "InvalidCallsign"
            ELSE /\ hist[2].ok
                 /\ Len(out) = 7
                 /\ \A i \in 1..6 :
                       out[i] = 2 * (IF i > Len(c.call) THEN 32
                                     ELSE IF c.call[i] >= 97 THEN c.call[i] - 32
                                     ELSE c.call[i])
                 /\ out[7] = (IF hist[1].field.kind = "Destination" THEN 224 ELSE 96)
                               + 2 * C16_SsidValue(c)
                               + (IF hist[1].field.heard THEN 128 ELSE 0)
                               + (IF hist[1].has_more THEN 0 ELSE 1)

\* A lower case base with the SSID 15 has been written as a heard via
\* field that is the last one.
C16_Witness ==
    /\ Len(hist) = 2 /\ hist[1].tag = "callsign"
    /\ hist[1].c = [call |-> <<97, 98, 57>>, ssid |-> SomeSsid(<<49, 53>>)]
    /\ hist[1].field = ViaField(TRUE) /\ ~hist[1].has_more
    /\ hist[2].ok
    /\ hist[2].out = <<130, 132, 114, 64, 64, 64, 255>>

(***************************************************************************)
(* AprsMessage::decode and AprsMessage::encode called on their own         *)
(***************************************************************************)

\* The longest addressee of a message the caller builds.
MaxAddressee == 10

\* Message bodies (the bytes after the identifier ':'): what stands before
\* the first ':' has 9 bytes, with and without spaces at the end, 8, 10 or
\* none; what follows is nothing, an empty text, a text, a text with an
\* empty id, with an id, with a ':', with two '{', with a space at the end.
BodyAddressees ==
    {B(<<"A", "B", "C", "D", "E", "F", "G", "H", "I">>),
     B(<<"A", "B", " ", " ", " ", " ", " ", " ", " ">>),
     B(<<" ", " ", " ", " ", " ", " ", " ", " ", " ">>),
     B(<<" ", "B", " ", "D", " ", " ", " ", " ", " ">>),
     B(<<"A", "B", "C", "D", "E", "F", "G", "H">>),
     B(<<"A", "B", "C", "D", "E", "F", "G", "H", "I", "J">>),
     B(<<"A", "B", "{", "D", " ", " ", " ", " ", " ">>),
     <<>>}
BodyRests ==
    {<<>>, B(<<":">>), B(<<":", "H">>), B(<<":", "H", "{">>), B(<<":", "H", "{", "1">>),
     B(<<":", "a", ":", "b">>), B(<<":", "{", "1", "{", "2">>), B(<<":", "H", " ">>)}
MessageBodies == {a \o r : a \in BodyAddressees, r \in BodyRests}

\* The messages a caller builds: addressees of letters and spaces up to
\* MaxAddressee bytes, with or without a text and an id.
BuiltMessages ==
    {[tag |-> "Message", to |-> Callsign_new_no_ssid(B(<<"D">>)),
      addressee |-> a, text |-> t, id |-> id] :
        a \in SeqsUpTo({65, 32}, MaxAddressee),
        t \in {<<>>, B(<<"H">>)},
        id \in {NoBytes, SomeBytes(<<>>), SomeBytes(B(<<"1">>))}}

InitMessage ==
    hist \in {<<[tag |-> "body", bytes |-> b]>> : b \in MessageBodies}
                \cup {<<[tag |-> "message", ok |-> TRUE, err |-> "", data |-> m]>> :
                        m \in BuiltMessages}

\* AprsMessage::decode(b, to)
DecodeMessage ==
    /\ Len(hist) < MaxSteps
    /\ Last.tag = "body"
    /\ hist' = Append(hist, [tag |-> "message"]
                               @@ AprsMessage_decode(Last.bytes, Callsign_new_no_ssid(B(<<"D">>))))

\* message.encode(&mut sink), the sink empty
EncodeMessage ==
    /\ Len(hist) < MaxSteps
    /\ Last.tag = "message" /\ Last.ok
    /\ hist' = Append(hist, [tag |-> "written"] @@ AprsMessage_encode(Last.data))

NextMessage == DecodeMessage \/ EncodeMessage
SpecMessage == InitMessage /\ [][NextMessage]_vars

(***************************************************************************)
(* C17  The message codec                                                  *)
(***************************************************************************)

\* The number of bytes of a body before its first ':' (all of them when
\* it has none).
C17_Before(b) ==
    IF \E i \in 1..Len(b) : b[i] = 58
    THEN (CHOOSE i \in 1..Len(b) : b[i] = 58 /\ \A j \in 1..(i - 1) : b[j] # 58) - 1
    ELSE Len(b)

\* a is the 9 bytes h without the spaces at their end.
C17_Trimmed(a, h) ==
    /\ Len(a) <= Len(h)
    /\ \A i \in 1..Len(a) : a[i] = h[i]
    /\ \A i \in (Len(a) + 1)..Len(h) : h[i] = 32
    /\ (Len(a) > 0 => a[Len(a)] # 32)

\* decode accepts a body exactly when 9 bytes stand before its first ':'
\* and stores them without the spaces at their end; encode refuses an
\* addressee of more than 9 bytes.
C17_DecodeAndRefuse ==
    /\ (Len(hist) >= 2 /\ hist[1].tag = "body") =>
          IF C17_Before(hist[1].bytes) = 9
          THEN /\ hist[2].ok
               /\ C17_Trimmed(hist[2].data.addressee, SubSeq(hist[1].bytes, 1, 9))
          ELSE ~hist[2].ok /\ hist[2].err = "InvalidMessageDestination"
    /\ \A k \in 1..Len(hist) :
          (k < Len(hist) /\ hist[k].tag = "message" /\ Len(hist[k].data.addressee) > 9) =>
              ~hist[k + 1].ok /\ hist[k + 1].err = "InvalidMessageAddressee"

\* C17 as stated: and for every body b that decode accepts, encode writes
\* ':' followed by exactly b.
C17_MessageRoundTrip ==
    /\ C17_DecodeAndRefuse
    /\ (Len(hist) >= 3 /\ hist[1].tag = "body") =>
          hist[3].ok /\ hist[3].out = <<58>> \o hist[1].bytes

\* C17 amended: for every accepted body b that holds a ':' (after its 9
\* bytes of addressee), encode writes ':' followed by exactly b; for an
\* accepted body without ':', which is 9 bytes of addressee and nothing
\* else, encode writes ':', b and a ':' that b did not hold.
C17_MessageRoundTripWithColon ==
    /\ C17_DecodeAndRefuse
    /\ (Len(hist) >= 3 /\ hist[1].tag = "body") =>
          /\ hist[3].ok
          /\ hist[3].out = <<58>> \o hist[1].bytes
                              \o (IF Len(hist[1].bytes) = 9 THEN <<58>> ELSE <<>>)

\* A body whose addressee ends in spaces and whose text is followed by an
\* id has been decoded and written back.
C17_Witness ==
    /\ Len(hist) = 3 /\ hist[1].tag = "body"
    /\ hist[1].bytes = B(<<"A", "B", " ", " ", " ", " ", " ", " ", " ", ":", "H", "{", "1">>)
    /\ hist[2].data.addressee = B(<<"A", "B">>)
    /\ hist[2].data.id = SomeBytes(B(<<"1">>))
    /\ hist[3].out = <<58>> \o hist[1].bytes

(***************************************************************************)
(* Latitude and longitude (components/lonlat.rs)                           *)
(*                                                                         *)
(* An f64 number of degrees is kept as a fraction, n / per: a field of     *)
(* degrees, minutes and hundredths gives a number of Degree-ths, a         *)
(* compressed field a number of 380926-ths or 190463-ths.  One Degree-th   *)
(* is one Resolution-th of a hundredth of a minute, far coarser than an    *)
(* f64 but fine enough to lie between two hundredths and on either side    *)
(* of the half that round() decides on.  Every f64 operation of the        *)
(* source whose result is rounded before it is truncated takes one more    *)
(* argument, the rounding error of that result, which the actions draw     *)
(* from RoundingErrors: the model then covers the result an f64 gives,     *)
(* whichever way it was rounded.  A sum of terms that are all exact in an  *)
(* f64 (whole degrees, quarters of a degree) has no error.                 *)
(***************************************************************************)

Resolution == 100

\* The Degree-ths of one degree, of one minute.
Degree == 6000 * Resolution
Minute == 100 * Resolution

RoundingErrors == {-1, 0, 1}

\* The f64 n / per.
F64(n, per) == [n |-> n, per |-> per]

\* f64 as u32: the fraction is dropped, a negative number gives 0.  The
\* number is x / unit.
AsU32(x, unit) == IF x < 0 THEN 0 ELSE x \div unit

\* f64::round of x / unit, then as u32: to the nearest whole number, a half
\* away from zero; a negative number rounds to one that as u32 gives 0.
RoundAsU32(x, unit) == IF x < 0 THEN 0 ELSE (2 * x + unit) \div (2 * unit)

NoCoordinate == [some |-> FALSE, value |-> F64(0, 1)]

\* Latitude::new (a model value is never NaN)
Latitude_new(value) ==
    IF value.n > 90 * value.per \/ value.n < -(90 * value.per)
    THEN NoCoordinate
    ELSE [some |-> TRUE, value |-> value]

\* Longitude::new
Longitude_new(value) ==
    IF value.n > 180 * value.per \/ value.n < -(180 * value.per)
    THEN NoCoordinate
    ELSE [some |-> TRUE, value |-> value]

\* min / 60. + hundredths / 6_000. is a dyadic fraction, which an f64 holds
\* and adds without error, exactly for whole quarters of a degree.
ExactInF64(min, hundredths) == min % 15 = 0 /\ hundredths = 0

\* f64::from(deg) + f64::from(min) / 60. + f64::from(hundredths) / 6_000.
DegreesOf(deg, min, hundredths, err) ==
    F64(deg * Degree + min * Minute + hundredths * Resolution
            + (IF ExactInF64(min, hundredths) THEN 0 ELSE err),
        Degree)

\* Latitude::from_dmh
Latitude_from_dmh(deg, min, hundredths, north, err) ==
    LET value == DegreesOf(deg, min, hundredths, err)
    IN  Latitude_new(IF north THEN value ELSE F64(-value.n, value.per))

\* Longitude::from_dmh
Longitude_from_dmh(deg, min, hundredths, east, err) ==
    LET value == DegreesOf(deg, min, hundredths, err)
    IN  Longitude_new(IF east THEN value ELSE F64(-value.n, value.per))

\* dmh() without its two carries.
Latitude_dmh_no_carry(lat, e1, e2) ==
    LET dir == lat.n >= 0
        a == IF dir THEN lat.n ELSE -lat.n
        deg == AsU32(a, lat.per)
        min == AsU32((a - deg * lat.per) * 60 + e1, lat.per)
        hundredths == RoundAsU32(((a - deg * lat.per) * 60 - min * lat.per) * 100 + e2, lat.per)
    IN  [deg |-> deg, min |-> min, hundredths |-> hundredths, dir |-> dir]

\* Latitude::dmh.  e1 is the error of (lat - deg) * 60.0, e2 that of
\* (lat - deg - min / 60.0) * 6000.0, in per-ths.  -0.0 >= 0.0 holds, as
\* 0 >= 0 does here.
Latitude_dmh(lat, e1, e2) ==
    LET dir == lat.n >= 0
        a == IF dir THEN lat.n ELSE -lat.n
        deg0 == AsU32(a, lat.per)
        min0 == AsU32((a - deg0 * lat.per) * 60 + e1, lat.per)
        hundredths0 ==
            RoundAsU32(((a - deg0 * lat.per) * 60 - min0 * lat.per) * 100 + e2, lat.per)
        hundredths == IF hundredths0 = 100 THEN 0 ELSE hundredths0
        min1 == IF hundredths0 = 100 THEN min0 + 1 ELSE min0
        min == IF min1 = 60 THEN 0 ELSE min1
        deg == IF min1 = 60 THEN deg0 + 1 ELSE deg0
    IN  [deg |-> deg, min |-> min, hundredths |-> hundredths, dir |-> dir]

\* Longitude::dmh
Longitude_dmh(lon, e1, e2) ==
    LET dir == lon.n >= 0
        a == IF dir THEN lon.n ELSE -lon.n
        deg0 == AsU32(a, lon.per)
        min0 == AsU32((a - deg0 * lon.per) * 60 + e1, lon.per)
        hundredths0 ==
            RoundAsU32(((a - deg0 * lon.per) * 60 - min0 * lon.per) * 100 + e2, lon.per)
        hundredths == IF hundredths0 = 100 THEN 0 ELSE hundredths0
        min1 == IF hundredths0 = 100 THEN min0 + 1 ELSE min0
        min == IF min1 = 60 THEN 0 ELSE min1
        deg == IF min1 = 60 THEN deg0 + 1 ELSE deg0
    IN  [deg |-> deg, min |-> min, hundredths |-> hundredths, dir |-> dir]

\* Precision, by name; num_digits and from_num_digits.
Precisions ==
    <<"HundredthMinute", "TenthMinute", "OneMinute", "TenMinute", "OneDegree", "TenDegree">>

Precision_default == "HundredthMinute"

Precision_num_digits(p) == (CHOOSE i \in 1..Len(Precisions) : Precisions[i] = p) - 1

Precision_from_num_digits(digits) ==
    IF digits <= 5 THEN [some |-> TRUE, v |-> Precisions[digits + 1]]
    ELSE [some |-> FALSE, v |-> Precision_default]

\* str::parse::<u32> of at most 4 bytes, too few to overflow: an optional '+', then one or more
\* digits.  [ok, v].
ParseU32(s) ==
    LET d == IF Len(s) > 0 /\ s[1] = 43 THEN Tail(s) ELSE s
    IN  IF Len(d) > 0 /\ \A i \in 1..Len(d) : IsAsciiDigit(d[i])
        THEN [ok |-> TRUE, v |-> DigitsValue(d)]
        ELSE [ok |-> FALSE, v |-> 0]

\* parse_bytes::<u32>
parse_bytes_u32(s) == IF IsUtf8(s) THEN ParseU32(s) ELSE [ok |-> FALSE, v |-> 0]

\* format!("{:0w$}", n)
RECURSIVE FormatPadded(_, _)
FormatPadded(n, w) ==
    LET digits == FormatU8(n)
    IN  IF Len(digits) >= w THEN digits ELSE <<48>> \o FormatPadded(n, w - 1)

\* parse_bytes_trailing_spaces that does not look at only_spaces.
parse_bytes_trailing_spaces_anywhere(b, only_spaces) ==
    LET none == [some |-> FALSE, v |-> 0, spaces |-> 0]
        one == parse_bytes_u32(Slice(b, 0, 1))
        two == parse_bytes_u32(b)
    IN  IF b = <<32, 32>> THEN [some |-> TRUE, v |-> 0, spaces |-> 2]
        ELSE IF b[2] = 32
        THEN IF one.ok THEN [some |-> TRUE, v |-> one.v * 10, spaces |-> 1] ELSE none
        ELSE IF two.ok THEN [some |-> TRUE, v |-> two.v, spaces |-> 0] ELSE none

\* parse_bytes_trailing_spaces: [some, v, spaces]
parse_bytes_trailing_spaces(b, only_spaces) ==
    LET none == [some |-> FALSE, v |-> 0, spaces |-> 0]
        one == parse_bytes_u32(Slice(b, 0, 1))
        two == parse_bytes_u32(b)
    IN  IF only_spaces
        THEN IF b = <<32, 32>> THEN [some |-> TRUE, v |-> 0, spaces |-> 2] ELSE none
        ELSE IF b = <<32, 32>> THEN [some |-> TRUE, v |-> 0, spaces |-> 2]
        ELSE IF b[2] = 32
        THEN IF one.ok THEN [some |-> TRUE, v |-> one.v * 10, spaces |-> 1] ELSE none
        ELSE IF two.ok THEN [some |-> TRUE, v |-> two.v, spaces |-> 0] ELSE none

\* The result of a coordinate parser: Ok(value) or Err(err); for a latitude
\* with its precision.
ParsedCoordinate(value, precision) ==
    [ok |-> TRUE, err |-> "", value |-> value, precision |-> precision]
BadCoordinate(e) ==
    [ok |-> FALSE, err |-> e, value |-> F64(0, 1), precision |-> Precision_default]

\* Latitude::parse_uncompressed.  e0 is the rounding error of from_dmh.
Latitude_parse_uncompressed(b, e0) ==
    LET bad == BadCoordinate("InvalidLatitude")
        Parsed(deg, min, min_frac) ==
            LET precision ==
                    Precision_from_num_digits(deg.spaces + min.spaces + min_frac.spaces)
                lat == Latitude_from_dmh(deg.v, min.v, min_frac.v, b[8] = 78, e0)
            IN  IF ~deg.some THEN bad
                ELSE IF ~min.some THEN bad
                ELSE IF ~min_frac.some THEN bad
                ELSE IF ~precision.some THEN bad
                ELSE IF ~lat.some THEN bad
                ELSE ParsedCoordinate(lat.value, precision.v)
        Minutes(deg, min) ==
            Parsed(deg, min, parse_bytes_trailing_spaces(<<b[6], b[7]>>, min.spaces > 0))
        Degrees(deg) ==
            Minutes(deg, parse_bytes_trailing_spaces(<<b[3], b[4]>>, deg.spaces > 0))
    IN  IF Len(b) # 8 THEN bad
        ELSE IF b[5] # 46 THEN bad
        ELSE IF b[8] # 78 /\ b[8] # 83 THEN bad
        ELSE Degrees(parse_bytes_trailing_spaces(<<b[1], b[2]>>, FALSE))

\* Latitude::encode_uncompressed: the first 6 - num_digits of the six digits,
\* the rest left blank.  e1 and e2 are the rounding errors of dmh().
Latitude_encode_uncompressed(lat, precision, e1, e2) ==
    LET p == Latitude_dmh(lat, e1, e2)
        blank_index == 6 - Precision_num_digits(precision)
        written == FormatPadded(p.deg, 2) \o FormatPadded(p.min, 2) \o FormatPadded(p.hundredths, 2)
        digit_buffer == [i \in 1..6 |-> IF i <= blank_index /\ i <= Len(written)
                                        THEN written[i] ELSE 32]
    IN  Wrote(Slice(digit_buffer, 0, 4) \o <<46>> \o Slice(digit_buffer, 4, 6)
                  \o <<IF p.dir THEN 78 ELSE 83>>)

\* Longitude::parse_uncompressed: the last num_digits of the seven digits
\* are read as '0'.
Longitude_parse_uncompressed(b, precision, e0) ==
    LET bad == BadCoordinate("InvalidLongitude")
        digits == Slice(b, 0, 5) \o Slice(b, 6, 8)
        digit_buffer == [i \in 1..7 |-> IF i > 7 - Precision_num_digits(precision)
                                        THEN 48 ELSE digits[i]]
        deg == parse_bytes_u32(Slice(digit_buffer, 0, 3))
        min == parse_bytes_u32(Slice(digit_buffer, 3, 5))
        min_frac == parse_bytes_u32(Slice(digit_buffer, 5, 7))
        lon == Longitude_from_dmh(deg.v, min.v, min_frac.v, b[9] = 69, e0)
    IN  IF Len(b) # 9 THEN bad
        ELSE IF b[6] # 46 THEN bad
        ELSE IF b[9] # 69 /\ b[9] # 87 THEN bad
        ELSE IF ~deg.ok THEN bad
        ELSE IF ~min.ok THEN bad
        ELSE IF ~min_frac.ok THEN bad
        ELSE IF ~lon.some THEN bad
        ELSE ParsedCoordinate(lon.value, precision)

\* Longitude::encode_uncompressed
Longitude_encode_uncompressed(lon, e1, e2) ==
    LET p == Longitude_dmh(lon, e1, e2)
    IN  Wrote(FormatPadded(p.deg, 3) \o FormatPadded(p.min, 2) \o <<46>>
                  \o FormatPadded(p.hundredths, 2) \o <<IF p.dir THEN 69 ELSE 87>>)

(***************************************************************************)
(* Coordinates on their own: from_dmh, new and dmh                         *)
(***************************************************************************)

\* Degrees, minutes and hundredths a caller passes to from_dmh: the ends of
\* each range, the first value past it, and values in between.
DmhDegrees == {0, 11, 89, 90, 91, 179, 180, 181}
DmhMinutes == {0, 1, 15, 59, 60}
DmhHundredths == {0, 1, 50, 99, 100}

DmhInputs ==
    [tag : {"dmh"}, lat : BOOLEAN, deg : DmhDegrees, min : DmhMinutes,
     hundredths : DmhHundredths, dir : BOOLEAN]

\* Numbers a caller passes to new: around a whole degree, around the half
\* of a hundredth, around the ends of both ranges, of either sign.
ValueBases ==
    {0, 12 * Degree, 11 * Degree + 59 * Minute + 99 * Resolution + Resolution \div 2,
     34 * Degree + 7 * Minute + 3 * Resolution + Resolution \div 2,
     90 * Degree, 180 * Degree}

ValueInputs ==
    [tag : {"value"}, lat : BOOLEAN,
     value : {F64(s * (b + off), Degree) : s \in {-1, 1}, b \in ValueBases, off \in -3..3}]

InitCoordinate == hist \in {<<i>> : i \in DmhInputs \cup ValueInputs}

\* Latitude::from_dmh(deg, min, hundredths, dir) or Longitude::from_dmh
FromDmh ==
    /\ Len(hist) < MaxSteps
    /\ Last.tag = "dmh"
    /\ \E err \in RoundingErrors :
          hist' = Append(hist, [tag |-> "coordinate", lat |-> Last.lat]
                     @@ (IF Last.lat
                         THEN Latitude_from_dmh(Last.deg, Last.min, Last.hundredths, Last.dir, err)
                         ELSE Longitude_from_dmh(Last.deg, Last.min, Last.hundredths, Last.dir, err)))

\* Latitude::new(value) or Longitude::new
NewCoordinate ==
    /\ Len(hist) < MaxSteps
    /\ Last.tag = "value"
    /\ hist' = Append(hist, [tag |-> "coordinate", lat |-> Last.lat]
                 @@ (IF Last.lat THEN Latitude_new(Last.value) ELSE Longitude_new(Last.value)))

\* coordinate.dmh()
Dmh ==
    /\ Len(hist) < MaxSteps
    /\ Last.tag = "coordinate" /\ Last.some
    /\ \E e1, e2 \in RoundingErrors :
          hist' = Append(hist, [tag |-> "parts"]
                     @@ (IF Last.lat THEN Latitude_dmh(Last.value, e1, e2)
                                     ELSE Longitude_dmh(Last.value, e1, e2)))

NextCoordinate == FromDmh \/ NewCoordinate \/ Dmh

SpecCoordinate == InitCoordinate /\ [][NextCoordinate]_vars

(***************************************************************************)
(* C18  The dmh law                                                        *)
(***************************************************************************)

\* The history is from_dmh(d, m, h, dir), accepted, then dmh(), with m and
\* h in their ranges.
C18_Composed ==
    /\ Len(hist) >= 3 /\ hist[1].tag = "dmh"
    /\ hist[1].min <= 59 /\ hist[1].hundredths <= 99

\* dmh() gave back what from_dmh was given.
C18_Same ==
    /\ hist[3].deg = hist[1].deg
    /\ hist[3].min = hist[1].min
    /\ hist[3].hundredths = hist[1].hundredths
    /\ hist[3].dir = hist[1].dir

\* dmh() of any coordinate returns minutes in 0..=59 and hundredths in
\* 0..=99.
C18_InRange ==
    \A k \in 1..Len(hist) :
        hist[k].tag = "parts" =>
            hist[k].min \in 0..59 /\ hist[k].hundredths \in 0..99

\* C18 as stated: for every (d, m, h) with m in 0..=59, h in 0..=99 and
\* either direction whose value is within range,
\* dmh(from_dmh(d, m, h, dir)) == (d, m, h, dir); and dmh() of every valid
\* Latitude or Longitude returns minutes in 0..=59 and hundredths in 0..=99.
C18_DmhLaw ==
    /\ C18_Composed => C18_Same
    /\ C18_InRange

\* C18 amended: the same for every (d, m, h) and direction other than zero
\* degrees, minutes and hundredths south or west, which dmh() returns as
\* (0, 0, 0) north or east.
C18_DmhLawButZero ==
    /\ C18_Composed =>
          IF hist[1].deg = 0 /\ hist[1].min = 0 /\ hist[1].hundredths = 0
          THEN hist[3].deg = 0 /\ hist[3].min = 0 /\ hist[3].hundredths = 0 /\ hist[3].dir
          ELSE C18_Same
    /\ C18_InRange

\* from_dmh(11, 59, 0, south), stored a rounding below the exact number,
\* has been taken apart: (lat - deg) * 60.0 was below 59 and the hundredths
\* rounded to 100, whose carry gave back (11, 59, 0, south).
C18_Witness ==
    /\ Len(hist) = 3
    /\ hist[1].tag = "dmh" /\ hist[1].lat
    /\ hist[1].deg = 11 /\ hist[1].min = 59 /\ hist[1].hundredths = 0 /\ ~hist[1].dir
    /\ hist[2].value = F64(-(11 * Degree + 59 * Minute - 1), Degree)
    /\ hist[3].deg = 11 /\ hist[3].min = 59 /\ hist[3].hundredths = 0 /\ ~hist[3].dir

(***************************************************************************)
(* Base 91 (base91.rs) and compressed coordinates (components/lonlat.rs)   *)
(***************************************************************************)

\* digit_from_ascii: ascii.checked_sub(33).  [some, v]
digit_from_ascii(ascii) ==
    IF ascii >= 33 THEN [some |-> TRUE, v |-> ascii - 33] ELSE [some |-> FALSE, v |-> 0]

\* digit_to_ascii
digit_to_ascii(digit) == digit + 33

\* decode_ascii: the digits most significant first; a whole number, which
\* an f64 holds without error.  [some, v]
RECURSIVE decode_ascii(_)
decode_ascii(bytes) ==
    IF Len(bytes) = 0 THEN [some |-> TRUE, v |-> 0]
    ELSE LET front == decode_ascii(Slice(bytes, 0, Len(bytes) - 1))
             x == digit_from_ascii(bytes[Len(bytes)])
         IN  IF front.some /\ x.some
             THEN [some |-> TRUE, v |-> front.v * 91 + x.v]
             ELSE [some |-> FALSE, v |-> 0]

\* Latitude::parse_compressed: 90.0 - decode_ascii(b) / 380926.0
Latitude_parse_compressed(b) ==
    LET n == decode_ascii(b)
        lat == Latitude_new(F64(90 * 380926 - n.v, 380926))
    IN  IF ~n.some THEN BadCoordinate("InvalidLatitude")
        ELSE IF ~lat.some THEN BadCoordinate("InvalidLatitude")
        ELSE ParsedCoordinate(lat.value, Precision_default)

\* Longitude::parse_compressed: decode_ascii(b) / 190463.0 - 180.0
Longitude_parse_compressed(b) ==
    LET n == decode_ascii(b)
        lon == Longitude_new(F64(n.v - 180 * 190463, 190463))
    IN  IF ~n.some THEN BadCoordinate("InvalidLongitude")
        ELSE IF ~lon.some THEN BadCoordinate("InvalidLongitude")
        ELSE ParsedCoordinate(lon.value, Precision_default)

(***************************************************************************)
(* AprsCompressionType (compression_type.rs), AprsCompressedCs             *)
(* (compressed_cs.rs)                                                      *)
(***************************************************************************)

\* bit k of a byte
Bit(byte, k) == (byte \div (2 ^ k)) % 2 = 1

GpsFix_from(bit) == IF bit THEN "Current" ELSE "Old"

NmeaSource_from(b4, b3) ==
    IF b4 THEN (IF b3 THEN "Rmc" ELSE "Gga") ELSE (IF b3 THEN "Gll" ELSE "Other")

Origin_from(b2, b1, b0) ==
    IF b2
    THEN (IF b1 THEN (IF b0 THEN "Digipeater" ELSE "Other") ELSE (IF b0 THEN "Pico" ELSE "Kpc3"))
    ELSE (IF b1 THEN (IF b0 THEN "Tbd" ELSE "Software")
                ELSE (IF b0 THEN "TncBText" ELSE "Compressed"))

\* impl From<u8> for AprsCompressionType
AprsCompressionType_from(byte) ==
    [gps_fix |-> GpsFix_from(Bit(byte, 5)),
     nmea_source |-> NmeaSource_from(Bit(byte, 4), Bit(byte, 3)),
     origin |-> Origin_from(Bit(byte, 2), Bit(byte, 1), Bit(byte, 0))]

\* The f64 base.powi(exp) + plus, kept as written: 1.08 and 1.002 are the
\* bases of the source, in thousandths.
Powi(base, exp, plus) == [base |-> base, exp |-> exp, plus |-> plus]

\* AprsCourseSpeed::from_cs, AprsRadioRange::from_s, AprsAltitude::from_cs
AprsCourseSpeed_from_cs(c, s) ==
    [tag |-> "CourseSpeed", course_degrees |-> c * 4, value |-> Powi(1080, s, -1), times |-> 1]
AprsRadioRange_from_s(s) ==
    [tag |-> "RadioRange", course_degrees |-> 0, value |-> Powi(1080, s, 0), times |-> 2]
AprsAltitude_from_cs(c, s) ==
    [tag |-> "Altitude", course_degrees |-> 0, value |-> Powi(1002, c * 91 + s, 0), times |-> 1]

\* AprsCompressedCs::parse with the match arm 0..=90 for a course and speed,
\* which leaves no digit to a radio range.
AprsCompressedCs_parse_no_range(c, s, t) ==
    LET c_lwr == digit_from_ascii(c)
        s_lwr == digit_from_ascii(s)
        bad == [ok |-> FALSE, err |-> "InvalidCs", at |-> <<c, s>>,
                cs |-> AprsRadioRange_from_s(0)]
    IN  IF ~c_lwr.some THEN bad
        ELSE IF ~s_lwr.some THEN bad
        ELSE IF t.nmea_source = "Gga"
        THEN [ok |-> TRUE, err |-> "", cs |-> AprsAltitude_from_cs(c_lwr.v, s_lwr.v)]
        ELSE IF c_lwr.v <= 90
        THEN [ok |-> TRUE, err |-> "", cs |-> AprsCourseSpeed_from_cs(c_lwr.v, s_lwr.v)]
        ELSE bad

\* AprsCompressedCs::parse: [ok, err, cs], and the bytes InvalidCs carries
\* in `at`.
AprsCompressedCs_parse(c, s, t) ==
    LET c_lwr == digit_from_ascii(c)
        s_lwr == digit_from_ascii(s)
        bad == [ok |-> FALSE, err |-> "InvalidCs", at |-> <<c, s>>,
                cs |-> AprsRadioRange_from_s(0)]
    IN  IF ~c_lwr.some THEN bad
        ELSE IF ~s_lwr.some THEN bad
        ELSE IF t.nmea_source = "Gga"
        THEN [ok |-> TRUE, err |-> "", cs |-> AprsAltitude_from_cs(c_lwr.v, s_lwr.v)]
        ELSE IF c_lwr.v <= 89
        THEN [ok |-> TRUE, err |-> "", cs |-> AprsCourseSpeed_from_cs(c_lwr.v, s_lwr.v)]
        ELSE IF c_lwr.v = 90
        THEN [ok |-> TRUE, err |-> "", cs |-> AprsRadioRange_from_s(s_lwr.v)]
        ELSE bad

(***************************************************************************)
(* Position (components/position.rs)                                       *)
(***************************************************************************)

\* AprsCst
Uncompressed == [tag |-> "Uncompressed"]
CompressedNone == [tag |-> "CompressedNone"]
CompressedSome(cs, t) == [tag |-> "CompressedSome", cs |-> cs, t |-> t]

\* char::is_numeric of a byte read as a char: the digits, and the
\* superscripts and fractions of Latin-1.
IsNumeric(c) == IsAsciiDigit(c) \/ c \in {178, 179, 185, 188, 189, 190}

NoPosition ==
    [latitude |-> F64(0, 1), longitude |-> F64(0, 1), precision |-> Precision_default,
     symbol_table |-> 0, symbol_code |-> 0, cst |-> Uncompressed]

\* A decoder returned Err(e), or indexed past the end of its input and
\* panicked.
BadPosition(e) == [ok |-> FALSE, err |-> e, position |-> NoPosition]
Panic == "panic"

\* Position::decode.  e0 is the rounding error of the latitude's from_dmh,
\* e1 that of the longitude's.
Position_decode(b, e0, e1) ==
    IF IsNumeric(IF Len(b) > 0 THEN b[1] ELSE 0)
    THEN
        IF Len(b) < 8 THEN BadPosition(Panic)
        ELSE LET Parsed(lat, lon) ==
                     IF ~lat.ok THEN BadPosition(lat.err)
                     ELSE IF Len(b) < 18 THEN BadPosition(Panic)
                     ELSE IF ~lon.ok THEN BadPosition(lon.err)
                     ELSE IF Len(b) < 19 THEN BadPosition(Panic)
                     ELSE [ok |-> TRUE, err |-> "",
                           position |-> [latitude |-> lat.value, longitude |-> lon.value,
                                         precision |-> lat.precision,
                                         symbol_table |-> b[9], symbol_code |-> b[19],
                                         cst |-> Uncompressed]]
                 WithLatitude(lat) ==
                     Parsed(lat, Longitude_parse_uncompressed(Slice(b, 9, 18),
                                                              lat.precision, e1))
             IN  WithLatitude(Latitude_parse_uncompressed(Slice(b, 0, 8), e0))
    ELSE
        IF Len(b) < 13 THEN BadPosition(Panic)
        ELSE LET lat == Latitude_parse_compressed(Slice(b, 1, 5))
                 lon == Longitude_parse_compressed(Slice(b, 5, 9))
                 t == AprsCompressionType_from(b[13] - 33)
                 cs == AprsCompressedCs_parse(b[11], b[12], t)
             IN  IF ~lat.ok THEN BadPosition(lat.err)
                 ELSE IF ~lon.ok THEN BadPosition(lon.err)
                 ELSE IF b[11] # 32 /\ b[13] < 33 THEN BadPosition("InvalidPosition")
                 ELSE IF b[11] # 32 /\ ~cs.ok THEN BadPosition(cs.err)
                 ELSE [ok |-> TRUE, err |-> "",
                       position |-> [latitude |-> lat.value, longitude |-> lon.value,
                                     precision |-> Precision_default,
                                     symbol_table |-> b[1], symbol_code |-> b[10],
                                     cst |-> IF b[11] = 32 THEN CompressedNone
                                             ELSE CompressedSome(cs.cs, t)]]

(***************************************************************************)
(* Extension (components/extensions.rs)                                    *)
(***************************************************************************)

Omni == [tag |-> "Omni", deg |-> 0]
DirectionDegrees(deg) == [tag |-> "DirectionDegrees", deg |-> deg]

\* impl TryFrom<u8> for Directivity: [ok, v]
Directivity_try_from(value) ==
    IF value >= 10 THEN [ok |-> FALSE, v |-> Omni]
    ELSE IF value = 0 THEN [ok |-> TRUE, v |-> Omni]
    ELSE [ok |-> TRUE, v |-> DirectionDegrees(45 * value)]

\* char::to_digit(10) of a byte read as a char: [some, v]
to_digit(c) ==
    IF IsAsciiDigit(c) THEN [some |-> TRUE, v |-> c - 48] ELSE [some |-> FALSE, v |-> 0]

NoExtension == [tag |-> "None"]
BadExtension(e) == [ok |-> FALSE, err |-> e, ext |-> NoExtension]
GoodExtension(x) == [ok |-> TRUE, err |-> "", ext |-> x]

\* Extension::decode
Extension_decode(b) ==
    LET bytes == Slice(b, 0, 7)
        head == Slice(bytes, 0, 3)
        range == parse_bytes_u32(Slice(bytes, 3, 7))
        power_code == to_digit(bytes[4])
        s_code == to_digit(bytes[4])
        height_code == bytes[5] - 48
        gain_code == to_digit(bytes[6])
        directivity_code == to_digit(bytes[7])
        directivity == Directivity_try_from(directivity_code.v)
        object_type == parse_bytes(Slice(bytes, 1, 3))
        color == parse_bytes(Slice(bytes, 5, 7))
        direction_degrees == parse_bytes_u32(Slice(bytes, 0, 3))
        speed_knots == parse_bytes_u32(Slice(bytes, 5, 7))
    IN  IF Len(b) < 7 THEN BadExtension("InvalidExtension")
        ELSE IF head = <<82, 78, 71>>
        THEN IF ~range.ok THEN BadExtension("InvalidExtensionRange")
             ELSE GoodExtension([tag |-> "RadioRange", radio_range_miles |-> range.v])
        ELSE IF head = <<80, 72, 71>>
        THEN IF \/ ~power_code.some
                \/ height_code < 0 \/ height_code >= 29
                \/ ~gain_code.some
                \/ ~directivity_code.some
                \/ ~directivity.ok
             THEN BadExtension("InvalidExtensionPhg")
             ELSE GoodExtension([tag |-> "PowerHeightGainDirectivity",
                                 power_watts |-> power_code.v * power_code.v,
                                 antenna_height_feet |-> (2 ^ height_code) * 10,
                                 antenna_gain_db |-> gain_code.v,
                                 antenna_directivity |-> directivity.v])
        ELSE IF head = <<68, 70, 83>>
        THEN IF \/ ~s_code.some
                \/ height_code < 0 \/ height_code >= 29
                \/ ~gain_code.some
                \/ ~directivity_code.some
                \/ ~directivity.ok
             THEN BadExtension("InvalidExtensionDfs")
             ELSE GoodExtension([tag |-> "DFStrengthHeightGainDirectivity",
                                 s_points |-> s_code.v,
                                 antenna_height_feet |-> (2 ^ height_code) * 10,
                                 antenna_gain_db |-> gain_code.v,
                                 antenna_directivity |-> directivity.v])
        ELSE IF head[1] = 84
        THEN IF ~object_type.ok \/ ~color.ok THEN BadExtension("InvalidExtensionArea")
             ELSE GoodExtension([tag |-> "AreaObjectDescriptor",
                                 object_type |-> object_type.v, color |-> color.v])
        ELSE IF b[4] = 47
        THEN IF ~direction_degrees.ok \/ ~speed_knots.ok
             THEN BadExtension("InvalidExtensionDirectionSpeed")
             ELSE GoodExtension([tag |-> "DirectionSpeed",
                                 direction_degrees |-> direction_degrees.v,
                                 speed_knots |-> speed_knots.v])
        ELSE BadExtension("InvalidExtensionDirectionSpeed")

(***************************************************************************)
(* AprsItem (item.rs)                                                      *)
(***************************************************************************)

NoItem ==
    [tag |-> "Item", to |-> NoCallsign, name |-> <<>>, live |-> FALSE,
     position |-> NoPosition, extension |-> NoExtension, comment |-> <<>>]

BadItem(e) == [ok |-> FALSE, err |-> e, data |-> NoItem]

\* The index at which the loop of AprsItem::decode stops: the first of the
\* indices 3 .. min(9, len) - 1 that holds a space or a '!', or 3 when none
\* does.
packet_offset_index(b) ==
    LET ends == {i \in 3..(IF Len(b) < 9 THEN Len(b) ELSE 9) - 1 : b[i + 1] \in {32, 33}}
    IN  IF ends = {} THEN 3 ELSE CHOOSE i \in ends : \A j \in ends : i <= j

\* AprsItem::decode.  e0 and e1 are the rounding errors of Position::decode.
AprsItem_decode(b, to, e0, e1) ==
    LET at == packet_offset_index(b)
        name == Slice(b, 0, at)
        Parsed(position, ext) ==
            IF ~position.ok THEN BadItem(position.err)
            ELSE [ok |-> TRUE, err |-> "",
                  data |-> [tag |-> "Item", to |-> to, name |-> name, live |-> b[at + 1] = 33,
                            position |-> position.position,
                            extension |-> IF position.position.cst = Uncompressed /\ ext.ok
                                          THEN ext.ext ELSE NoExtension,
                            comment |-> IF position.position.cst = Uncompressed
                                        THEN IF ext.ok THEN Slice(b, at + 27, Len(b))
                                             ELSE Slice(b, at + 20, Len(b))
                                        ELSE Slice(b, at + 14, Len(b))]]
    IN  IF Len(b) < 3 THEN BadItem("InvalidItemName")
        ELSE IF \E i \in 1..Len(name) : name[i] \in {32, 33} THEN BadItem("InvalidItemName")
        ELSE IF Len(b) = at THEN BadItem(Panic)
        ELSE IF b[at + 1] # 33 /\ b[at + 1] # 32 THEN BadItem("InvalidItemLiveness")
        ELSE Parsed(Position_decode(Slice(b, at + 1, Len(b)), e0, e1),
                    IF Len(b) >= at + 27 THEN Extension_decode(Slice(b, at + 20, at + 27))
                    ELSE BadExtension("InvalidExtension"))

(***************************************************************************)
(* Items on their own: AprsItem::decode                                    *)
(***************************************************************************)

MaxItemName == 10

\* Names of 0 to MaxItemName bytes (A, AB, ABC, ...), and names that hold a
\* '!' or a space.
ItemNames ==
    {[i \in 1..n |-> 64 + i] : n \in 0..MaxItemName}
        \cup {B(<<"A", "!", "C">>), B(<<"A", "B", " ">>), B(<<"!", "B", "C">>), B(<<"A", "B", "C", "D", "!", "E">>)}

\* What follows a name: '!', a space, another byte, or nothing.
ItemEnds == {<<33>>, <<32>>, <<88>>, <<>>}

\* What follows the liveness: the position of the tests of item.rs,
\* uncompressed and compressed, with an extension, with a comment, cut
\* short, or none.
ItemPositions ==
    {B(<<"4", "9", "0", "3", ".", "5", "0", "N", "/", "0", "7", "2", "0", "1", ".", "7", "5", "W", "A">>),
     B(<<"4", "9", "0", "3", ".", "5", "0", "N", "/", "0", "7", "2", "0", "1", ".", "7", "5", "W", "A", "P", "H", "G", "5", "1", "3", "2">>),
     B(<<"4", "9", "0", "3", ".", "5", "0", "N", "/", "0", "7", "2", "0", "1", ".", "7", "5", "W", "A", " ", "c", "o", "m", "m", "e", "n", "t">>),
     B(<<"backslash", "5", "L", "!", "!", "<", "*", "e", "7", "9", " ", "s", "T">>),
     B(<<"4", "9", "0", "3", ".", "5", "0", "N", "/", "0", "7", "2", "0", "1", ".", "7", "5", "W">>),
     B(<<"4", "9", "0", "3", ".", "5", "0", "X", "/", "0", "7", "2", "0", "1", ".", "7", "5", "W", "A">>),
     B(<<"backslash", "5", "L", "!", "!", "<", "*", "e", "7", "9", " ", "s">>),
     <<>>}

ItemBodies == {n \o e \o p : n \in ItemNames, e \in ItemEnds, p \in ItemPositions}

InitItem == hist \in {<<[tag |-> "body", bytes |-> b]>> : b \in ItemBodies}

\* AprsItem::decode(b, to)
DecodeItem ==
    /\ Len(hist) < MaxSteps
    /\ Last.tag = "body"
    /\ \E e0, e1 \in RoundingErrors :
          hist' = Append(hist, [tag |-> "item"]
                     @@ AprsItem_decode(Last.bytes, Callsign_new_no_ssid(B(<<"D">>)), e0, e1))

NextItem == DecodeItem

SpecItem == InitItem /\ [][NextItem]_vars

(***************************************************************************)
(* C19  The item name rule                                                 *)
(***************************************************************************)

\* The bytes of b before its first '!' or space (all of them when it has
\* none): the name the layout gives the item.
C19_Name(b) ==
    IF \E i \in 1..Len(b) : b[i] \in {32, 33}
    THEN SubSeq(b, 1, (CHOOSE i \in 1..Len(b) :
                          b[i] \in {32, 33} /\ \A j \in 1..(i - 1) : b[j] \notin {32, 33}) - 1)
    ELSE b

\* Position bodies that Position::decode accepts.
C19_Positions ==
    {B(<<"4", "9", "0", "3", ".", "5", "0", "N", "/", "0", "7", "2", "0", "1", ".", "7", "5", "W", "A">>),
     B(<<"4", "9", "0", "3", ".", "5", "0", "N", "/", "0", "7", "2", "0", "1", ".", "7", "5", "W", "A", "P", "H", "G", "5", "1", "3", "2">>),
     B(<<"4", "9", "0", "3", ".", "5", "0", "N", "/", "0", "7", "2", "0", "1", ".", "7", "5", "W", "A", " ", "c", "o", "m", "m", "e", "n", "t">>),
     B(<<"backslash", "5", "L", "!", "!", "<", "*", "e", "7", "9", " ", "s", "T">>)}

\* b is a name, the '!' or space that ends it, and a position.
C19_Item(b) ==
    /\ Len(C19_Name(b)) < Len(b)
    /\ SubSeq(b, Len(C19_Name(b)) + 2, Len(b)) \in C19_Positions

\* C19: AprsItem::decode accepts every item whose name is 3 to 9 bytes
\* long, holds no '!' or space and is followed by '!' (live) or a space
\* (not live), and returns that name and liveness; an input with a '!' or
\* a space within the first 3 bytes of the name is rejected with
\* InvalidItemName.
C19_ItemNameRule ==
    (Len(hist) >= 2 /\ hist[1].tag = "body") =>
        LET b == hist[1].bytes
            name == C19_Name(b)
        IN  /\ (C19_Item(b) /\ Len(name) \in 3..9) =>
                  /\ hist[2].ok
                  /\ hist[2].data.name = name
                  /\ hist[2].data.live = (b[Len(name) + 1] = 33)
            /\ (Len(b) >= 3 /\ Len(name) < 3) =>
                  ~hist[2].ok /\ hist[2].err = "InvalidItemName"

(***************************************************************************)
(* Strings and chars                                                       *)
(***************************************************************************)

\* The first char of a non-empty s as from_utf8_lossy reads it: the number
\* of bytes it takes, and whether they are a well-formed UTF-8 sequence
\* (when not, they are the longest prefix that begins one, or one byte).
Utf8Step(s) ==
    LET c == s[1]
        n == Len(s)
        second == /\ n >= 2 /\ IsCont(s[2])
                  /\ (c = 224 => s[2] >= 160)
                  /\ (c = 237 => s[2] <= 159)
                  /\ (c = 240 => s[2] >= 144)
                  /\ (c = 244 => s[2] <= 143)
        third == n >= 3 /\ IsCont(s[3])
        fourth == n >= 4 /\ IsCont(s[4])
    IN  IF c < 128 THEN [len |-> 1, valid |-> TRUE]
        ELSE IF c >= 194 /\ c <= 223
        THEN IF second THEN [len |-> 2, valid |-> TRUE] ELSE [len |-> 1, valid |-> FALSE]
        ELSE IF c >= 224 /\ c <= 239
        THEN IF ~second THEN [len |-> 1, valid |-> FALSE]
             ELSE IF ~third THEN [len |-> 2, valid |-> FALSE]
             ELSE [len |-> 3, valid |-> TRUE]
        ELSE IF c >= 240 /\ c <= 244
        THEN IF ~second THEN [len |-> 1, valid |-> FALSE]
             ELSE IF ~third THEN [len |-> 2, valid |-> FALSE]
             ELSE IF ~fourth THEN [len |-> 3, valid |-> FALSE]
             ELSE [len |-> 4, valid |-> TRUE]
        ELSE [len |-> 1, valid |-> FALSE]

\* String::from_utf8_lossy: every ill-formed sequence becomes U+FFFD.  The
\* String is kept as its UTF-8 bytes.
RECURSIVE from_utf8_lossy(_)
from_utf8_lossy(s) ==
    IF Len(s) = 0 THEN <<>>
    ELSE LET step == Utf8Step(s)
         IN  (IF step.valid THEN Slice(s, 0, step.len) ELSE <<239, 191, 189>>)
                 \o from_utf8_lossy(Slice(s, step.len, Len(s)))

\* The chars with the White_Space property, in UTF-8.
WhiteSpace ==
    {<<c>> : c \in {9, 10, 11, 12, 13, 32}}
        \cup {<<194, 133>>, <<194, 160>>, <<225, 154, 128>>}
        \cup {<<226, 128, c>> : c \in (128..138) \cup {168, 169, 175}}
        \cup {<<226, 129, 159>>, <<227, 128, 128>>}

\* str::trim_start, str::trim_end, str::trim
RECURSIVE trim_start(_)
trim_start(s) ==
    IF \E w \in WhiteSpace : Len(w) <= Len(s) /\ Slice(s, 0, Len(w)) = w
    THEN LET w == CHOOSE w \in WhiteSpace : Len(w) <= Len(s) /\ Slice(s, 0, Len(w)) = w
         IN  trim_start(Slice(s, Len(w), Len(s)))
    ELSE s

RECURSIVE trim_end(_)
trim_end(s) ==
    IF \E w \in WhiteSpace : Len(w) <= Len(s) /\ Slice(s, Len(s) - Len(w), Len(s)) = w
    THEN LET w == CHOOSE w \in WhiteSpace :
                      Len(w) <= Len(s) /\ Slice(s, Len(s) - Len(w), Len(s)) = w
         IN  trim_end(Slice(s, 0, Len(s) - Len(w)))
    ELSE s

trim(s) == trim_end(trim_start(s))

\* str::chars().count()
CharCount(s) == Cardinality({i \in 1..Len(s) : ~IsCont(s[i])})

\* str::is_char_boundary
is_char_boundary(s, index) ==
    \/ index = 0
    \/ index = Len(s)
    \/ (index < Len(s) /\ ~IsCont(s[index + 1]))

\* format!("{s:9}"): s, then spaces up to 9 chars.
PadChars(s, width) ==
    s \o [i \in 1..(IF CharCount(s) < width THEN width - CharCount(s) ELSE 0) |-> 32]

\* write!(buf, "{}", c) of a char made of one byte (b as char): the UTF-8
\* of the code point of that value.
WriteChar(c) == IF c < 128 THEN <<c>> ELSE <<192 + (c \div 64), 128 + (c % 64)>>

(***************************************************************************)
(* Base 91 and compressed coordinates, encoders                            *)
(***************************************************************************)

\* x * m = q * d + r with 0 <= r < d, for x >= 0, without a product larger
\* than 3 * d.
RECURSIVE MulDiv(_, _, _)
MulDiv(x, m, d) ==
    IF m = 0 THEN [q |-> 0, r |-> 0]
    ELSE LET half == MulDiv(x, m \div 2, d)
             t == 2 * half.r + (IF m % 2 = 1 THEN x % d ELSE 0)
         IN  [q |-> 2 * half.q + (IF m % 2 = 1 THEN x \div d ELSE 0) + t \div d,
              r |-> t % d]

\* (x as f64 * m / d).round() for x >= 0, the product being e d-ths away
\* from the exact one.
RoundScaled(x, m, d, e) ==
    LET p == MulDiv(x, m, d)
    IN  IF 2 * (p.r + e) >= d THEN p.q + 1 ELSE p.q

\* The digits the loop of encode_ascii pushes, the last pushed first: while
\* val > 1.0, val % 91.0 as u8 and val /= 91.0.  After k rounds val is
\* v / 91^k, which an f64 holds closely enough for both; pow is 91^k.
RECURSIVE Base91Digits(_, _)
Base91Digits(v, pow) ==
    IF v > pow THEN Base91Digits(v, pow * 91) \o <<digit_to_ascii((v \div pow) % 91)>>
    ELSE <<>>

\* encode_ascii of an already rounded val.  The debug_assert!(val > 0.0)
\* panics in a build with debug assertions (checks) and is absent otherwise.
encode_ascii(val, padding, checks) ==
    LET digit_buf == Base91Digits(val, 1)
    IN  IF checks /\ val <= 0 THEN Failed(Panic, <<>>)
        ELSE Wrote([i \in 1..(IF Len(digit_buf) < padding THEN padding - Len(digit_buf) ELSE 0)
                       |-> digit_to_ascii(0)]
                   \o digit_buf)

\* Latitude::encode_compressed: (90.0 - lat) * 380926.0
Latitude_encode_compressed(lat, e, checks) ==
    encode_ascii(RoundScaled(90 * lat.per - lat.n, 380926, lat.per, e), 4, checks)

\* Longitude::encode_compressed: (180.0 + lon) * 190463.0
Longitude_encode_compressed(lon, e, checks) ==
    encode_ascii(RoundScaled(180 * lon.per + lon.n, 190463, lon.per, e), 4, checks)

\* impl From<AprsCompressionType> for u8
AprsCompressionType_to_u8(t) ==
    (IF t.gps_fix = "Current" THEN 32 ELSE 0)
        + (IF t.nmea_source \in {"Gga", "Rmc"} THEN 16 ELSE 0)
        + (IF t.nmea_source \in {"Gll", "Rmc"} THEN 8 ELSE 0)
        + (IF t.origin \in {"Kpc3", "Pico", "Other", "Digipeater"} THEN 4 ELSE 0)
        + (IF t.origin \in {"Software", "Tbd", "Other", "Digipeater"} THEN 2 ELSE 0)
        + (IF t.origin \in {"TncBText", "Tbd", "Pico", "Digipeater"} THEN 1 ELSE 0)

\* x.ln() / base.ln() of x = times * base.powi(exp) + plus, for the three
\* uses of the source: speed_knots + 1.0, range_miles / 2.0 and
\* altitude_feet.  The quotient of the two logarithms is exp but for the
\* rounding errors of powi, ln and the division: e Resolution-ths.
LogQuotient(value, e) == value.exp * Resolution + e

\* The quotient cast with `as` without round(): the fraction is dropped.
LogTruncated(value, e) == AsU32(LogQuotient(value, e), Resolution)

\* (x.ln() / base.ln()).round()
LogRound(value, e) == RoundAsU32(LogQuotient(value, e), Resolution)

\* AprsCourseSpeed::to_cs, AprsRadioRange::to_s, AprsAltitude::to_cs
AprsCourseSpeed_to_cs(cs, e) ==
    [c |-> cs.course_degrees \div 4, s |-> LogRound(cs.value, e)]
AprsRadioRange_to_s(rr, e) == LogRound(rr.value, e)
AprsAltitude_to_cs(a, e) ==
    [c |-> LogRound(a.value, e) \div 91, s |-> LogRound(a.value, e) % 91]

\* buf.write_all(&[digit_to_ascii(d), ...]) of u8 digits: digit + 33
\* overflows a u8 above 222, which panics in a build with overflow checks
\* and wraps otherwise.
WriteDigits(digits, checks) ==
    IF \E i \in 1..Len(digits) : digit_to_ascii(digits[i]) > 255
    THEN IF checks THEN Failed(Panic, <<>>)
         ELSE Wrote([i \in 1..Len(digits) |-> digit_to_ascii(digits[i]) % 256])
    ELSE Wrote([i \in 1..Len(digits) |-> digit_to_ascii(digits[i])])

\* AprsCompressedCs::encode
AprsCompressedCs_encode(cs, t, e, checks) ==
    Then(CASE cs.tag = "CourseSpeed" ->
                WriteDigits(<<AprsCourseSpeed_to_cs(cs, e).c % 256,
                              AprsCourseSpeed_to_cs(cs, e).s>>, checks)
           [] cs.tag = "RadioRange" ->
                LET d == WriteDigits(<<AprsRadioRange_to_s(cs, e)>>, checks)
                IN  IF d.ok THEN Wrote(<<123>> \o d.out) ELSE d
           [] cs.tag = "Altitude" ->
                IF t.nmea_source # "Gga" THEN Failed("NonGgaAltitude", <<>>)
                ELSE WriteDigits(<<AprsAltitude_to_cs(cs, e).c % 256,
                                   AprsAltitude_to_cs(cs, e).s>>, checks),
         WriteDigits(<<AprsCompressionType_to_u8(t)>>, checks))

(***************************************************************************)
(* AprsObject (object.rs)                                                  *)
(***************************************************************************)

NoObject ==
    [tag |-> "Object", to |-> NoCallsign, name |-> <<>>, live |-> FALSE,
     timestamp |-> NoTimestamp.v] @@ NoPosition @@ [comment |-> <<>>]

BadObject(e) == [ok |-> FALSE, err |-> e, data |-> NoObject]

\* AprsObject::decode.  e0 and e1 are the rounding errors of the two
\* from_dmh of an uncompressed position.
AprsObject_decode(b, to, e0, e1) ==
    LET name == trim(from_utf8_lossy(Slice(b, 0, 9)))
        timestamp == Timestamp_try_from(Slice(b, 10, 17))
        compressed == ~IsNumeric(IF Len(b) > 17 THEN b[18] ELSE 0)
        head == [tag |-> "Object", to |-> to, name |-> name, live |-> b[10] = 42,
                 timestamp |-> timestamp.v]
        clat == Latitude_parse_compressed(Slice(b, 18, 22))
        clon == Longitude_parse_compressed(Slice(b, 22, 26))
        t == AprsCompressionType_from(b[30] - 33)
        cs == AprsCompressedCs_parse(b[28], b[29], t)
        lat == Latitude_parse_uncompressed(Slice(b, 17, 25), e0)
        lon == Longitude_parse_uncompressed(Slice(b, 26, 35), lat.precision, e1)
    IN  IF Len(b) < 17 THEN BadObject("InvalidObjectFormat")
        ELSE IF b[10] # 42 /\ b[10] # 32 THEN BadObject("InvalidObjectFormat")
        ELSE IF ~timestamp.ok THEN BadObject("InvalidTimestamp")
        ELSE IF compressed
        THEN IF Len(b) < 30 THEN BadObject(Panic)
             ELSE IF ~clat.ok THEN BadObject(clat.err)
             ELSE IF ~clon.ok THEN BadObject(clon.err)
             ELSE IF b[28] # 32 /\ b[30] < 33 THEN BadObject("InvalidPosition")
             ELSE IF b[28] # 32 /\ ~cs.ok THEN BadObject(cs.err)
             ELSE [ok |-> TRUE, err |-> "",
                   data |-> head @@ [latitude |-> clat.value, longitude |-> clon.value,
                                     precision |-> Precision_default,
                                     symbol_table |-> b[18], symbol_code |-> b[27],
                                     cst |-> IF b[28] = 32 THEN CompressedNone
                                             ELSE CompressedSome(cs.cs, t),
                                     comment |-> Slice(b, 30, Len(b))]]
        ELSE IF Len(b) < 25 THEN BadObject(Panic)
        ELSE IF ~lat.ok THEN BadObject(lat.err)
        ELSE IF Len(b) < 35 THEN BadObject(Panic)
        ELSE IF ~lon.ok THEN BadObject(lon.err)
        ELSE IF Len(b) < 36 THEN BadObject(Panic)
        ELSE [ok |-> TRUE, err |-> "",
              data |-> head @@ [latitude |-> lat.value, longitude |-> lon.value,
                                precision |-> lat.precision,
                                symbol_table |-> b[26], symbol_code |-> b[36],
                                cst |-> Uncompressed,
                                comment |-> Slice(b, 36, Len(b))]]

\* AprsObject::encode.  e is the four rounding errors of the coordinates:
\* of the two dmh() of an uncompressed position, or of the two products of
\* a compressed one (e[1] and e[3]); e[2] is that of the logarithms of its
\* course and speed, range or altitude.
AprsObject_encode(o, e, checks) ==
    LET name == IF Len(o.name) >= 9 THEN Slice(o.name, 0, 9) ELSE o.name
        compressed ==
            Then(Wrote(WriteChar(o.symbol_table)),
            Then(Latitude_encode_compressed(o.latitude, e[1], checks),
            Then(Longitude_encode_compressed(o.longitude, e[3], checks),
                 Wrote(WriteChar(o.symbol_code)))))
    IN  IF Len(o.name) >= 9 /\ ~is_char_boundary(o.name, 9) THEN Failed(Panic, <<>>)
        ELSE
        Then(Wrote(<<59>>),
        Then(Wrote(PadChars(name, 9)),
        Then(Wrote(<<IF o.live THEN 42 ELSE 32>>),
        Then(Timestamp_encode(o.timestamp),
        Then(CASE o.cst.tag = "CompressedSome" ->
                    Then(compressed, AprsCompressedCs_encode(o.cst.cs, o.cst.t, e[2], checks))
               [] o.cst.tag = "CompressedNone" ->
                    Then(compressed, Wrote(<<32, 115, 84>>))
               [] o.cst.tag = "Uncompressed" ->
                    Then(Latitude_encode_uncompressed(o.latitude, o.precision, e[1], e[2]),
                    Then(Wrote(WriteChar(o.symbol_table)),
                    Then(Longitude_encode_uncompressed(o.longitude, e[3], e[4]),
                         Wrote(WriteChar(o.symbol_code))))),
             Wrote(o.comment))))))

(***************************************************************************)
(* Objects on their own: AprsObject::decode and encode                     *)
(***************************************************************************)

\* The 9 bytes of a name: of the tests of object.rs, padded, all spaces,
\* with a space in front or inside, with a tab at the end, with a byte
\* that is no UTF-8 (0xFF) in the middle or at index 7, with a char of two
\* bytes.
ObjectNames ==
    {B(<<"H", "F", "E", "S", "T", "-", "1", "8", "H">>), B(<<"C", "A", "R", " ", " ", " ", " ", " ", " ">>), B(<<" ", " ", " ", " ", " ", " ", " ", " ", " ">>), B(<<" ", "C", "A", "R", " ", " ", " ", " ", " ">>), B(<<"A", " ", "B", " ", " ", " ", " ", " ", " ">>), <<67, 65, 82, 32, 32, 32, 32, 32, 9>>,
     <<67, 65, 82, 255, 32, 32, 32, 32, 32>>,
     <<65, 66, 67, 68, 69, 70, 71, 255, 72>>,
     <<195, 169, 65, 82, 32, 32, 32, 32, 32>>}

\* The liveness byte: '*', space, or another byte.
ObjectLives == {<<42>>, <<32>>, <<95>>}

\* The 7 bytes of a timestamp: the forms Timestamp::try_from reads, in
\* either case, with a sign for a digit, and with a byte it refuses.
ObjectTimestamps ==
    {B(<<"1", "7", "0", "4", "0", "3", "z">>), B(<<"1", "7", "0", "4", "0", "3", "h">>), B(<<"1", "7", "0", "4", "0", "3", "Z">>), B(<<"1", "7", "0", "4", "0", "3", "H">>), B(<<"1", "7", "0", "4", "0", "3", "/">>), B(<<"1", "7", "0", "4", "+", "3", "z">>), B(<<"1", "7", "0", "4", "0", "x", "z">>)}

\* Position bodies, uncompressed: of the tests, with blanked digits, on the
\* equator and the prime meridian of either direction, with 60 minutes,
\* with a sign for a digit, out of range, with a symbol above 127.
ObjectPositions ==
    {B(<<"3", "4", "4", "3", ".", "5", "5", "N", "backslash", "0", "8", "6", "3", "5", ".", "4", "7", "W", "h">>), B(<<"3", "4", "4", "3", ".", "5", " ", "N", "backslash", "0", "8", "6", "3", "5", ".", "4", " ", "W", "h">>), B(<<"3", "4", " ", " ", ".", " ", " ", "N", "backslash", "0", "8", "6", "3", "5", ".", "4", "7", "W", "h">>), B(<<"0", "0", "0", "0", ".", "0", "0", "S", "backslash", "0", "0", "0", "0", "0", ".", "0", "0", "W", "h">>),
     B(<<"0", "0", "0", "0", ".", "0", "0", "N", "backslash", "0", "0", "0", "0", "0", ".", "0", "0", "E", "h">>), B(<<"3", "4", "6", "0", ".", "0", "0", "N", "backslash", "0", "8", "6", "3", "5", ".", "4", "7", "W", "h">>), B(<<"3", "4", "+", "3", ".", "5", "5", "N", "backslash", "0", "8", "6", "3", "5", ".", "4", "7", "W", "h">>),
     B(<<"9", "0", "0", "0", ".", "0", "1", "N", "backslash", "0", "8", "6", "3", "5", ".", "4", "7", "W", "h">>), B(<<"3", "4", "4", "3", ".", "5", "5", "N", "backslash", "1", "8", "0", "0", "0", ".", "0", "1", "W", "h">>),
     <<51, 52, 52, 51, 46, 53, 53, 78, 233, 48, 56, 54, 51, 53, 46, 52, 55, 87, 104>>}

\* Position bodies, compressed: of the tests, without course and speed,
\* with the digits of 1, 91 and 0 for a coordinate, with a range, with an
\* altitude, with a type byte above 96, below 33, with digits above 90,
\* out of range.
ObjectCompressed ==
    {B(<<"/", "5", "L", "!", "!", "<", "*", "e", "7", ">", "7", "P", "[">>), B(<<"/", "5", "L", "!", "!", "<", "*", "e", "7", ">", " ", "s", "T">>), B(<<"/", "!", "!", "!", "dquote", "<", "*", "e", "7", ">", " ", "s", "T">>), B(<<"/", "!", "!", "dquote", "!", "<", "*", "e", "7", ">", " ", "s", "T">>),
     B(<<"/", "!", "!", "!", "!", "<", "*", "e", "7", ">", " ", "s", "T">>), B(<<"/", "5", "L", "!", "!", "<", "*", "e", "7", ">", "{", "?", "[">>), B(<<"/", "5", "L", "!", "!", "<", "*", "e", "7", ">", "7", "P", "3">>), B(<<"/", "5", "L", "!", "!", "<", "*", "e", "7", ">", "7", "P", "a">>),
     B(<<"/", "5", "L", "!", "!", "<", "*", "e", "7", ">", "7", "P", " ">>), B(<<"/", "5", "L", "!", "|", "<", "*", "e", "7", ">", " ", "s", "T">>), B(<<"/", "5", "L", "!", "!", "<", "*", "e", "7", ">", "~", "P", "[">>),
     B(<<"/", "~", "~", "~", "~", "<", "*", "e", "7", ">", " ", "s", "T">>)}

ObjectComments == {<<>>, B(<<"M", "o", "v", "i", "n", "g">>)}

ObjectBody(name, live, timestamp, position, comment) ==
    name \o live \o timestamp \o position \o comment

\* Bodies that differ from the two of the tests in one part, and every
\* prefix of those two.
ObjectBases ==
    {ObjectBody(B(<<"H", "F", "E", "S", "T", "-", "1", "8", "H">>), <<42>>, B(<<"1", "7", "0", "4", "0", "3", "z">>), p, <<>>) : p \in {B(<<"3", "4", "4", "3", ".", "5", "5", "N", "backslash", "0", "8", "6", "3", "5", ".", "4", "7", "W", "h">>), B(<<"/", "5", "L", "!", "!", "<", "*", "e", "7", ">", "7", "P", "[">>)}}

ObjectBodies ==
    {ObjectBody(n, <<42>>, B(<<"1", "7", "0", "4", "0", "3", "z">>), p, <<>>) : n \in ObjectNames, p \in {B(<<"3", "4", "4", "3", ".", "5", "5", "N", "backslash", "0", "8", "6", "3", "5", ".", "4", "7", "W", "h">>), B(<<"/", "5", "L", "!", "!", "<", "*", "e", "7", ">", "7", "P", "[">>)}}
        \cup {ObjectBody(B(<<"H", "F", "E", "S", "T", "-", "1", "8", "H">>), l, t, B(<<"3", "4", "4", "3", ".", "5", "5", "N", "backslash", "0", "8", "6", "3", "5", ".", "4", "7", "W", "h">>), c) :
                l \in ObjectLives, t \in ObjectTimestamps, c \in ObjectComments}
        \cup {ObjectBody(B(<<"C", "A", "R", " ", " ", " ", " ", " ", " ">>), l, B(<<"1", "7", "0", "4", "0", "3", "z">>), p, c) :
                l \in ObjectLives, p \in ObjectPositions \cup ObjectCompressed,
                c \in ObjectComments}
        \cup UNION {{Slice(b, 0, n) : n \in 0..Len(b)} : b \in ObjectBases}

InitObject == hist \in {<<[tag |-> "body", bytes |-> b]>> : b \in ObjectBodies}

\* AprsObject::decode(b, to)
DecodeObject ==
    /\ Len(hist) < MaxSteps
    /\ Last.tag = "body"
    /\ \E e0, e1 \in RoundingErrors :
          hist' = Append(hist, [tag |-> "object"]
                     @@ AprsObject_decode(Last.bytes, Callsign_new_no_ssid(B(<<"D">>)), e0, e1))

\* object.encode(&mut sink), the sink empty, in a build with or without
\* debug assertions and overflow checks.
EncodeObject ==
    /\ Len(hist) < MaxSteps
    /\ Last.tag = "object" /\ Last.ok
    /\ \E e \in [1..4 -> RoundingErrors], checks \in BOOLEAN :
          hist' = Append(hist, [tag |-> "encoded"] @@ AprsObject_encode(Last.data, e, checks))

NextObject == DecodeObject \/ EncodeObject

SpecObject == InitObject /\ [][NextObject]_vars

(***************************************************************************)
(* C20  The object round trip                                              *)
(***************************************************************************)

\* C20: for every object body b that AprsObject::decode accepts,
\* AprsObject::encode writes ';' followed by exactly b; a liveness byte
\* other than '*' and space is a decode error.
C20_ObjectRoundTrip ==
    /\ (Len(hist) >= 3 /\ hist[1].tag = "body" /\ hist[2].ok) =>
          hist[3].ok /\ hist[3].out = <<59>> \o hist[1].bytes
    /\ (Len(hist) >= 2 /\ hist[1].tag = "body" /\ Len(hist[1].bytes) >= 10
            /\ hist[1].bytes[10] \notin {42, 32}) =>
          ~hist[2].ok

(***************************************************************************)
(* Status reports on their own: AprsStatus::try_from                       *)
(***************************************************************************)

\* AprsStatus::is_timestamp_compliant
AprsStatus_is_timestamp_compliant(st) ==
    IF st.timestamp.some THEN st.timestamp.v.kind = "DDHHMM" ELSE TRUE

\* The first 7 bytes of a status body: the examples of status.rs, the
\* suffixes Timestamp::try_from reads in either case, a sign or a letter for
\* a digit, a byte that is no UTF-8, another suffix, and plain text.
StatusHeads ==
    {B(<<"2", "8", "1", "2", "0", "5", "z">>), B(<<"1", "2", "0", "5", "0", "3", "h">>), B(<<"2", "8", "1", "2", "0", "5", "Z">>), B(<<"1", "2", "0", "5", "0", "3", "H">>), B(<<"2", "8", "1", "2", "0", "5", "/">>), B(<<"2", "8", "1", "2", "a", "b", "/">>),
     B(<<"2", "8", "1", "2", "+", "5", "z">>), B(<<"2", "8", "1", "2", "0", "x", "z">>), <<50, 56, 49, 50, 255, 53, 122>>, B(<<"2", "8", "1", "2", "0", "5", "x">>),
     B(<<"1", "2", ".", "6", "V", " ", "0">>)}

StatusTails == {<<>>, B(<<".">>), B(<<"S", "y", "s", "t", "e", "m", " ", "w", "i", "l", "l", " ", "s", "h", "u", "t", "d", "o", "w", "n">>)}

\* Status bodies: a head and a tail, and every prefix of a head.
StatusBodies ==
    {h \o t : h \in StatusHeads, t \in StatusTails}
        \cup UNION {{Slice(h, 0, n) : n \in 0..Len(h)} : h \in StatusHeads}

InitStatus == hist \in {<<[tag |-> "status_body", bytes |-> b]>> : b \in StatusBodies}

\* AprsStatus::try_from(b)
DecodeStatus ==
    /\ Len(hist) < MaxSteps
    /\ Last.tag = "status_body"
    /\ hist' = Append(hist, [tag |-> "status"]
                   @@ AprsStatus_decode(Last.bytes, Callsign_new_no_ssid(B(<<"D">>))))

\* status.is_timestamp_compliant()
IsTimestampCompliant ==
    /\ Len(hist) < MaxSteps
    /\ Last.tag = "status"
    /\ hist' = Append(hist, [tag |-> "compliant",
                             v |-> AprsStatus_is_timestamp_compliant(Last.data)])

NextStatus == DecodeStatus \/ IsTimestampCompliant

SpecStatus == InitStatus /\ [][NextStatus]_vars

(***************************************************************************)
(* C21  Status decode never fails                                          *)
(***************************************************************************)

\* C21: decoding a status body b never fails; if b has at least 7 bytes and
\* its first 7 bytes parse as a Timestamp then timestamp is that value and
\* comment is b[7..], otherwise timestamp is None and comment is b;
\* is_timestamp_compliant() is true exactly when the timestamp is absent or
\* is DDHHMM.
C21_StatusDecode ==
    (Len(hist) >= 2 /\ hist[1].tag = "status_body") =>
        LET b == hist[1].bytes
            t == Timestamp_try_from(SubSeq(b, 1, 7))
            st == hist[2].data
        IN  /\ hist[2].ok
            /\ IF Len(b) >= 7 /\ t.ok
               THEN st.timestamp = [some |-> TRUE, v |-> t.v]
                    /\ st.comment = SubSeq(b, 8, Len(b))
               ELSE ~st.timestamp.some /\ st.comment = b
            /\ Len(hist) >= 3 =>
                  (hist[3].v <=> (~st.timestamp.some \/ st.timestamp.v.kind = "DDHHMM"))

\* A report with an HHMMSS timestamp: decoded with the timestamp and the
\* rest as comment, and flagged as not compliant.
C21_Witness ==
    /\ Len(hist) = 3
    /\ hist[1].bytes = B(<<"1", "2", "0", "5", "0", "3", "h", ".">>)
    /\ hist[2].ok
    /\ hist[2].data.timestamp = SomeTimestamp(Timestamp_HHMMSS(12, 5, 3))
    /\ hist[2].data.comment = B(<<".">>)
    /\ hist[3].v = FALSE

(***************************************************************************)
(* Base 91 on its own: encode_ascii and decode_ascii                       *)
(***************************************************************************)

\* Numbers below 91^4 a caller encodes with a padding of 4: 0, the powers
\* of 91 and their multiples by 2, 45 and 90, each with its two neighbours,
\* and the number of the edge_case test of base91.rs.
Base91Inputs ==
    {n \in {k * (91 ^ j) + d : k \in {1, 2, 45, 90}, j \in 0..3, d \in {-1, 0, 1}} : n >= 0}
        \cup {1532410, 91 ^ 4 - 1}

InitBase91 == hist \in {<<[tag |-> "number", n |-> n]>> : n \in Base91Inputs}

\* encode_ascii(n as f64, &mut buf, 4), in a build with or without debug
\* assertions.
EncodeAscii ==
    /\ Len(hist) < MaxSteps
    /\ Last.tag = "number"
    /\ \E checks \in BOOLEAN :
          hist' = Append(hist, [tag |-> "digits"] @@ encode_ascii(Last.n, 4, checks))

\* decode_ascii(&buf)
DecodeAscii ==
    /\ Len(hist) < MaxSteps
    /\ Last.tag = "digits" /\ Last.ok
    /\ hist' = Append(hist, [tag |-> "number_read"] @@ decode_ascii(Last.out))

NextBase91 == EncodeAscii \/ DecodeAscii

SpecBase91 == InitBase91 /\ [][NextBase91]_vars

(***************************************************************************)
(* C22  The base-91 round trip                                             *)
(***************************************************************************)

\* C22: for every integer n in [0, 91^4), encode_ascii(n, padding = 4)
\* writes exactly 4 bytes, each in 0x21..=0x7B, and decode_ascii of those
\* bytes returns n.
C22_Base91RoundTrip ==
    (Len(hist) >= 2 /\ hist[1].tag = "number") =>
        /\ hist[2].ok
        /\ Len(hist[2].out) = 4
        /\ \A i \in 1..Len(hist[2].out) : hist[2].out[i] \in 33..123
        /\ Len(hist) >= 3 => (hist[3].some /\ hist[3].v = hist[1].n)

(***************************************************************************)
(* Compressed course, speed, range and altitude on their own: from_cs and  *)
(* to_cs                                                                   *)
(***************************************************************************)

\* The two digits of the exhaustive tests of compressed_cs.rs: 0..=90 each.
CsTestDigits == 0..90

InitCsLaw == hist \in {<<[tag |-> "cs_digits", c |-> c, s |-> s]>> : c, s \in CsTestDigits}

\* AprsCourseSpeed::from_cs(c, s), AprsRadioRange::from_s(s),
\* AprsAltitude::from_cs(c, s)
FromCs ==
    /\ Len(hist) < MaxSteps
    /\ Last.tag = "cs_digits"
    /\ \/ hist' = Append(hist, [tag |-> "cs_value",
                                cs |-> AprsCourseSpeed_from_cs(Last.c, Last.s)])
       \/ hist' = Append(hist, [tag |-> "cs_value", cs |-> AprsRadioRange_from_s(Last.s)])
       \/ hist' = Append(hist, [tag |-> "cs_value",
                                cs |-> AprsAltitude_from_cs(Last.c, Last.s)])

\* val.to_cs(), val.to_s(): c is 0 where to_s returns no c.
ToCs ==
    /\ Len(hist) < MaxSteps
    /\ Last.tag = "cs_value"
    /\ \E e \in RoundingErrors :
          hist' = Append(hist,
                     [tag |-> "cs_digits_back"]
                         @@ CASE Last.cs.tag = "CourseSpeed" -> AprsCourseSpeed_to_cs(Last.cs, e)
                              [] Last.cs.tag = "RadioRange" ->
                                   [c |-> 0, s |-> AprsRadioRange_to_s(Last.cs, e)]
                              [] Last.cs.tag = "Altitude" -> AprsAltitude_to_cs(Last.cs, e))

NextCsLaw == FromCs \/ ToCs

SpecCsLaw == InitCsLaw /\ [][NextCsLaw]_vars

(***************************************************************************)
(* C23  Compressed course/speed exhaustiveness                             *)
(***************************************************************************)

CsBytesC == {0, 32, 33, 34, 77, 121, 122, 123, 124, 125, 200, 255}
CsBytesS == {0, 32, 33, 34, 123, 124, 255}

\* Every compression type: the six bits of the type byte.
CompressionTypes == {AprsCompressionType_from(byte) : byte \in 0..63}

InitCsDispatch ==
    hist \in {<<[tag |-> "cs_bytes", c |-> c, s |-> s, t |-> t]>> :
                 c \in CsBytesC, s \in CsBytesS, t \in CompressionTypes}

\* AprsCompressedCs::parse(c, s, t)
ParseCs ==
    /\ Len(hist) < MaxSteps
    /\ Last.tag = "cs_bytes"
    /\ hist' = Append(hist, [tag |-> "cs_parsed"]
                                @@ AprsCompressedCs_parse(Last.c, Last.s, Last.t))

\* cs.encode(&mut buf, t) of a parsed value into an empty buffer, with any
\* type whose origin is Compressed.
EncodeCs ==
    /\ Len(hist) < MaxSteps
    /\ Last.tag = "cs_parsed"
    /\ Last.ok
    /\ \E t \in {u \in CompressionTypes : u.origin = "Compressed"}, e \in RoundingErrors,
          checks \in BOOLEAN :
          hist' = Append(hist, [tag |-> "cs_encoded", t |-> t]
                                   @@ AprsCompressedCs_encode(Last.cs, t, e, checks))

NextCsDispatch == ParseCs \/ EncodeCs

SpecCsDispatch == InitCsDispatch /\ [][NextCsDispatch]_vars

(***************************************************************************)
(* C24  Compressed cs dispatch                                             *)
(***************************************************************************)

\* C24: AprsCompressedCs::parse(c, s, t), with c' = c - 0x21 and
\* s' = s - 0x21, returns InvalidCs([c, s]) when c or s is below 0x21;
\* else Altitude whenever t.nmea_source is Gga; otherwise CourseSpeed with
\* course 4 * c' degrees when c' is in 0..=89, RadioRange when c' = 90 and
\* InvalidCs([c, s]) for every other c'.  AprsCompressedCs::encode of an
\* Altitude with a type whose nmea_source is not Gga returns NonGgaAltitude.
C24_CsDispatch ==
    /\ (Len(hist) >= 2 /\ hist[1].tag = "cs_bytes") =>
          LET InvalidCs == ~hist[2].ok /\ hist[2].err = "InvalidCs"
                               /\ hist[2].at = <<hist[1].c, hist[1].s>>
          IN  IF hist[1].c < 33 \/ hist[1].s < 33 THEN InvalidCs
              ELSE IF hist[1].t.nmea_source = "Gga"
              THEN hist[2].ok /\ hist[2].cs.tag = "Altitude"
              ELSE IF hist[1].c - 33 \in 0..89
              THEN hist[2].ok /\ hist[2].cs.tag = "CourseSpeed"
                       /\ hist[2].cs.course_degrees = 4 * (hist[1].c - 33)
              ELSE IF hist[1].c - 33 = 90
              THEN hist[2].ok /\ hist[2].cs.tag = "RadioRange"
              ELSE InvalidCs
    /\ (Len(hist) >= 3 /\ hist[1].tag = "cs_bytes" /\ hist[2].cs.tag = "Altitude"
            /\ hist[3].t.nmea_source # "Gga") =>
          (~hist[3].ok /\ hist[3].err = "NonGgaAltitude")

\* The bytes `!!` with a type of source Gga are an altitude, which a type
\* of source Rmc does not encode.
C24_Witness ==
    /\ Len(hist) = 3
    /\ hist[1].tag = "cs_bytes" /\ hist[1].c = 33 /\ hist[1].s = 33
    /\ hist[1].t.nmea_source = "Gga"
    /\ hist[2].ok /\ hist[2].cs.tag = "Altitude"
    /\ hist[3].t.nmea_source = "Rmc"
    /\ hist[3].err = "NonGgaAltitude"

(***************************************************************************)
(* Latitude::parse_uncompressed on its own: the fields DDMM.MMH            *)
(***************************************************************************)

\* What stands at a digit position: a blank, or one of the digits 0, 3, 9.
LatitudeFieldBytes == {32, 48, 51, 57}

\* The hemisphere byte: N, S, and W, which is none of a latitude.
LatitudeHemispheres == {78, 83, 87}

InitLatitudeField ==
    hist \in {<<[tag |-> "lat_field",
                 b |-> <<d[1], d[2], d[3], d[4], 46, d[5], d[6], h>>]>> :
                 d \in [1..6 -> LatitudeFieldBytes], h \in LatitudeHemispheres}

\* Latitude::parse_uncompressed(b)
ParseUncompressedLatitude ==
    /\ Len(hist) < MaxSteps
    /\ Last.tag = "lat_field"
    /\ \E e0 \in RoundingErrors :
          hist' = Append(hist, [tag |-> "lat_parsed"]
                                   @@ Latitude_parse_uncompressed(Last.b, e0))

\* lat.encode_uncompressed(&mut buf, precision) of a parsed latitude
EncodeUncompressedLatitude ==
    /\ Len(hist) < MaxSteps
    /\ Last.tag = "lat_parsed"
    /\ Last.ok
    /\ \E e1, e2 \in RoundingErrors :
          hist' = Append(hist,
                     [tag |-> "lat_written"]
                         @@ Latitude_encode_uncompressed(Last.value, Last.precision, e1, e2))

NextLatitudeField == ParseUncompressedLatitude \/ EncodeUncompressedLatitude

SpecLatitudeField == InitLatitudeField /\ [][NextLatitudeField]_vars

(***************************************************************************)
(* C25  Latitude ambiguity                                                 *)
(***************************************************************************)

Message_decode(a, b, c) ==
    CASE <<a, b, c>> = <<"StandardOne", "StandardOne", "StandardOne">> -> "M0"
      [] <<a, b, c>> = <<"CustomOne", "CustomOne", "CustomOne">> -> "C0"
      [] <<a, b, c>> = <<"StandardOne", "StandardOne", "Zero">> -> "M1"
      [] <<a, b, c>> = <<"CustomOne", "CustomOne", "Zero">> -> "C1"
      [] <<a, b, c>> = <<"StandardOne", "Zero", "StandardOne">> -> "M2"
      [] <<a, b, c>> = <<"CustomOne", "Zero", "CustomOne">> -> "C2"
      [] <<a, b, c>> = <<"StandardOne", "Zero", "Zero">> -> "M3"
      [] <<a, b, c>> = <<"CustomOne", "Zero", "Zero">> -> "C3"
      [] <<a, b, c>> = <<"Zero", "StandardOne", "StandardOne">> -> "M4"
      [] <<a, b, c>> = <<"Zero", "CustomOne", "CustomOne">> -> "C4"
      [] <<a, b, c>> = <<"Zero", "StandardOne", "Zero">> -> "M5"
      [] <<a, b, c>> = <<"Zero", "CustomOne", "Zero">> -> "C5"
      [] <<a, b, c>> = <<"Zero", "Zero", "StandardOne">> -> "M6"
      [] <<a, b, c>> = <<"Zero", "Zero", "CustomOne">> -> "C6"
      [] <<a, b, c>> = <<"Zero", "Zero", "Zero">> -> "Emergency"
      [] OTHER -> "Unknown"

\* Message::encode
Message_encode(m) ==
    CASE m = "M0" -> <<"StandardOne", "StandardOne", "StandardOne">>
      [] m = "C0" -> <<"CustomOne", "CustomOne", "CustomOne">>
      [] m = "M1" -> <<"StandardOne", "StandardOne", "Zero">>
      [] m = "C1" -> <<"CustomOne", "CustomOne", "Zero">>
      [] m = "M2" -> <<"StandardOne", "Zero", "StandardOne">>
      [] m = "C2" -> <<"CustomOne", "Zero", "CustomOne">>
      [] m = "M3" -> <<"StandardOne", "Zero", "Zero">>
      [] m = "C3" -> <<"CustomOne", "Zero", "Zero">>
      [] m = "M4" -> <<"Zero", "StandardOne", "StandardOne">>
      [] m = "C4" -> <<"Zero", "CustomOne", "CustomOne">>
      [] m = "M5" -> <<"Zero", "StandardOne", "Zero">>
      [] m = "C5" -> <<"Zero", "CustomOne", "Zero">>
      [] m = "M6" -> <<"Zero", "Zero", "StandardOne">>
      [] m = "C6" -> <<"Zero", "Zero", "CustomOne">>
      [] m = "Emergency" -> <<"Zero", "Zero", "Zero">>
      [] m = "Unknown" -> <<"StandardOne", "CustomOne", "StandardOne">>

\* Speed::new, Course::new: [some, v]
Speed_new(knots) ==
    IF knots > 799 THEN [some |-> FALSE, v |-> 0] ELSE [some |-> TRUE, v |-> knots]
Course_new(degrees) ==
    IF degrees > 360 THEN [some |-> FALSE, v |-> 0] ELSE [some |-> TRUE, v |-> degrees]

\* MessageBit::decode: '0'..='9' | 'L', 'A'..='K', 'P'..='Z'.  [some, v]
MessageBit_decode(c) ==
    IF IsAsciiDigit(c) \/ c = 76 THEN [some |-> TRUE, v |-> "Zero"]
    ELSE IF c >= 65 /\ c <= 75 THEN [some |-> TRUE, v |-> "CustomOne"]
    ELSE IF c >= 80 /\ c <= 90 THEN [some |-> TRUE, v |-> "StandardOne"]
    ELSE [some |-> FALSE, v |-> "Zero"]

\* LatDir::decode and LatDir::byte
LatDir_decode(c) ==
    IF IsAsciiDigit(c) \/ c = 76 THEN [some |-> TRUE, v |-> "South"]
    ELSE IF c >= 80 /\ c <= 90 THEN [some |-> TRUE, v |-> "North"]
    ELSE [some |-> FALSE, v |-> "South"]
LatDir_byte(d) == IF d = "North" THEN 78 ELSE 83

\* LongOffset::decode
LongOffset_decode(c) ==
    IF IsAsciiDigit(c) \/ c = 76 THEN [some |-> TRUE, v |-> "Zero"]
    ELSE IF c >= 80 /\ c <= 90 THEN [some |-> TRUE, v |-> "Hundred"]
    ELSE [some |-> FALSE, v |-> "Zero"]

\* LongDir::decode
LongDir_decode(c) ==
    IF IsAsciiDigit(c) \/ c = 76 THEN [some |-> TRUE, v |-> "East"]
    ELSE IF c >= 80 /\ c <= 90 THEN [some |-> TRUE, v |-> "West"]
    ELSE [some |-> FALSE, v |-> "East"]

\* decode_latitude_digit: the ASCII digit, or a space.  [some, v]
decode_latitude_digit(c) ==
    IF IsAsciiDigit(c) THEN [some |-> TRUE, v |-> c]
    ELSE IF c >= 65 /\ c <= 74 THEN [some |-> TRUE, v |-> c - 17]
    ELSE IF c \in {75, 76, 90} THEN [some |-> TRUE, v |-> 32]
    ELSE IF c >= 80 /\ c <= 89 THEN [some |-> TRUE, v |-> c - 32]
    ELSE [some |-> FALSE, v |-> 0]

NoMicEDestination ==
    [some |-> FALSE, latitude |-> F64(0, 1), precision |-> Precision_default,
     message |-> "Unknown", long_offset |-> "Zero", long_dir |-> "East"]

\* decode_callsign.  e0 is the rounding error of the from_dmh of the
\* latitude.
decode_callsign(c, e0) ==
    LET data == c.call
        FromParts(lat, a, b, c2, long_offset, long_dir) ==
            IF ~lat.ok \/ ~a.some \/ ~b.some \/ ~c2.some \/ ~long_offset.some \/ ~long_dir.some
            THEN NoMicEDestination
            ELSE [some |-> TRUE, latitude |-> lat.value, precision |-> lat.precision,
                  message |-> Message_decode(a.v, b.v, c2.v),
                  long_offset |-> long_offset.v, long_dir |-> long_dir.v]
    IN  IF Len(data) # 6 THEN NoMicEDestination
        ELSE IF \E i \in 1..6 : ~decode_latitude_digit(data[i]).some THEN NoMicEDestination
        ELSE IF ~LatDir_decode(data[4]).some THEN NoMicEDestination
        ELSE FromParts(Latitude_parse_uncompressed(
                           <<decode_latitude_digit(data[1]).v, decode_latitude_digit(data[2]).v,
                             decode_latitude_digit(data[3]).v, decode_latitude_digit(data[4]).v,
                             46,
                             decode_latitude_digit(data[5]).v, decode_latitude_digit(data[6]).v,
                             LatDir_byte(LatDir_decode(data[4]).v)>>, e0),
                       MessageBit_decode(data[1]), MessageBit_decode(data[2]),
                       MessageBit_decode(data[3]), LongOffset_decode(data[5]),
                       LongDir_decode(data[6]))

\* x - 28 of a u8 x, as a build without overflow checks computes it: below
\* 28 it wraps.
WrappingSub28(x) == (x + 256 - 28) % 256

\* decode_longitude: [some, panic, value].  The u8 subtractions b[i] - 28
\* and the u8 addition d += 100 overflow, which panics in a build with
\* overflow checks and wraps otherwise.  err is the rounding error of
\* from_dmh.
decode_longitude(b, offset, dir, err, checks) ==
    LET d0 == WrappingSub28(b[1])
        d1 == IF offset = "Hundred" THEN (d0 + 100) % 256 ELSE d0
        d == IF d1 >= 180 /\ d1 <= 189 THEN d1 - 80
             ELSE IF d1 >= 190 /\ d1 <= 199 THEN d1 - 190
             ELSE d1
        m0 == WrappingSub28(b[2])
        m == IF m0 >= 60 THEN m0 - 60 ELSE m0
        h == WrappingSub28(b[3])
        overflows == \/ b[1] < 28
                     \/ offset = "Hundred" /\ d0 + 100 > 255
                     \/ b[2] < 28
                     \/ b[3] < 28
    IN  IF Len(b) # 3 THEN [some |-> FALSE, panic |-> FALSE, value |-> F64(0, 1)]
        ELSE IF checks /\ overflows THEN [some |-> FALSE, panic |-> TRUE, value |-> F64(0, 1)]
        ELSE [panic |-> FALSE] @@ Longitude_from_dmh(d, m, h, dir = "East", err)

\* decode_speed_and_course: [some, panic, speed, course].  The subtractions
\* b[i] - 28 are made in u8, before the conversion to u32.
decode_speed_and_course(b, checks) ==
    LET sp == WrappingSub28(b[1])
        tens_knots == sp * 10
        dc == WrappingSub28(b[2])
        units_knots == dc \div 10
        hundreds_course == (dc % 10) * 100
        units_course == WrappingSub28(b[3])
        speed_knots == IF tens_knots + units_knots >= 800
                       THEN tens_knots + units_knots - 800
                       ELSE tens_knots + units_knots
        course_degrees == IF hundreds_course + units_course >= 400
                          THEN hundreds_course + units_course - 400
                          ELSE hundreds_course + units_course
        none == [some |-> FALSE, panic |-> FALSE, speed |-> 0, course |-> 0]
    IN  IF checks /\ (b[1] < 28 \/ b[2] < 28 \/ b[3] < 28)
        THEN [some |-> FALSE, panic |-> TRUE, speed |-> 0, course |-> 0]
        ELSE IF ~Speed_new(speed_knots).some THEN none
        ELSE IF ~Course_new(course_degrees).some THEN none
        ELSE [some |-> TRUE, panic |-> FALSE, speed |-> Speed_new(speed_knots).v,
              course |-> Course_new(course_degrees).v]

NoMicE ==
    [tag |-> "MicE", latitude |-> F64(0, 1), longitude |-> F64(0, 1),
     precision |-> Precision_default, message |-> "Unknown", speed |-> 0, course |-> 0,
     symbol_table |-> 0, symbol_code |-> 0, comment |-> <<>>, current |-> FALSE]

\* AprsMicE::decode.  e0 and e1 are the rounding errors of the from_dmh of
\* the latitude and of the longitude.
AprsMicE_decode(b, to, current, e0, e1, checks) ==
    LET bad(e) == [ok |-> FALSE, err |-> e, data |-> NoMicE]
        WithSpeed(callsign, longitude, speed_and_course) ==
            IF speed_and_course.panic THEN bad(Panic)
            ELSE IF ~speed_and_course.some THEN bad("InvalidMicEInformation")
            ELSE [ok |-> TRUE, err |-> "",
                  data |-> [tag |-> "MicE", latitude |-> callsign.latitude,
                            longitude |-> longitude.value, precision |-> callsign.precision,
                            message |-> callsign.message, speed |-> speed_and_course.speed,
                            course |-> speed_and_course.course,
                            symbol_table |-> b[8], symbol_code |-> b[7],
                            comment |-> Slice(b, 8, Len(b)), current |-> current]]
        WithLongitude(callsign, longitude) ==
            IF longitude.panic THEN bad(Panic)
            ELSE IF ~longitude.some THEN bad("InvalidMicEInformation")
            ELSE WithSpeed(callsign, longitude, decode_speed_and_course(Slice(b, 3, 6), checks))
        WithDestination(callsign) ==
            IF ~callsign.some THEN bad("InvalidMicEDestination")
            ELSE IF Len(b) < 8 THEN bad("InvalidMicEInformation")
            ELSE WithLongitude(callsign,
                               decode_longitude(Slice(b, 0, 3), callsign.long_offset,
                                                callsign.long_dir, e1, checks))
    IN  WithDestination(decode_callsign(to, e0))

\* encode_bits_012, encode_bit_3, encode_bit_4, encode_bit_5: lat_digit is
\* an ASCII digit or a space.
encode_bits_012(lat_digit, message_bit) ==
    CASE message_bit = "Zero" -> IF lat_digit = 32 THEN 76 ELSE lat_digit
      [] message_bit = "CustomOne" -> IF lat_digit = 32 THEN 75 ELSE lat_digit + 17
      [] message_bit = "StandardOne" -> IF lat_digit = 32 THEN 90 ELSE lat_digit + 32
encode_bit_3(lat_digit, lat_dir) ==
    IF lat_dir = "North" THEN (IF lat_digit = 32 THEN 90 ELSE lat_digit + 32)
    ELSE (IF lat_digit = 32 THEN 76 ELSE lat_digit)
encode_bit_4(lat_digit, long_offset) ==
    IF long_offset = "Hundred" THEN (IF lat_digit = 32 THEN 90 ELSE lat_digit + 32)
    ELSE (IF lat_digit = 32 THEN 76 ELSE lat_digit)
encode_bit_5(lat_digit, long_dir) ==
    IF long_dir = "West" THEN (IF lat_digit = 32 THEN 90 ELSE lat_digit + 32)
    ELSE (IF lat_digit = 32 THEN 76 ELSE lat_digit)

\* AprsMicE::encode_destination.  e1 and e2 are the rounding errors of the
\* dmh() of encode_uncompressed.  -0.0 >= 0.0 holds, as 0 >= 0 does here.
AprsMicE_encode_destination(m, e1, e2) ==
    LET lat_dir == IF m.latitude.n >= 0 THEN "North" ELSE "South"
        long_dir == IF m.longitude.n >= 0 THEN "East" ELSE "West"
        long_abs == IF m.longitude.n >= 0 THEN m.longitude.n ELSE -m.longitude.n
        long_offset == IF long_abs <= 9 * m.longitude.per \/ long_abs >= 100 * m.longitude.per
                       THEN "Hundred" ELSE "Zero"
        Encoded(encoded_lat, bits) ==
            Callsign_new_no_ssid(<<encode_bits_012(encoded_lat[1], bits[1]),
                                   encode_bits_012(encoded_lat[2], bits[2]),
                                   encode_bits_012(encoded_lat[3], bits[3]),
                                   encode_bit_3(encoded_lat[4], lat_dir),
                                   encode_bit_4(encoded_lat[6], long_offset),
                                   encode_bit_5(encoded_lat[7], long_dir)>>)
    IN  Encoded(Latitude_encode_uncompressed(m.latitude, m.precision, e1, e2).out,
                Message_encode(m.message))

(***************************************************************************)
(* Mic-E on its own: decode and encode_destination                         *)
(***************************************************************************)

\* Destinations: at each of the six places a digit and the letters that
\* stand for it with a message, direction or offset bit set, and the
\* letters of a blank.
MicEDestinations ==
    {<<a, b, c, d, e, f>> :
        a \in {Ord[x] : x \in {"3", "D", "S"}}, b \in {Ord[x] : x \in {"2", "R"}},
        c \in {Ord[x] : x \in {"9", "A", "P", "L"}},
        d \in {Ord[x] : x \in {"5", "U", "L", "Z"}},
        e \in {Ord[x] : x \in {"0", "P", "L", "Z"}},
        f \in {Ord[x] : x \in {"0", "P", "L", "Z"}}}

\* The first three bytes of the information field, the longitude: degrees
\* on both sides of 10 and of 100, with and without minutes.
MicELongitudes ==
    {<<28 + d, 28, 28>> : d \in {0, 5, 9, 10, 72, 80, 90, 99}}
        \cup {<<28 + 9, 28 + 30, 28>>, <<28 + 99, 28 + 30, 28>>}

\* Bytes of the speed and course: below 28, where the subtraction
\* overflows, and on both sides of the steps of the speed and the course.
MicESpeedBytes == {0, 2, 27, 28, 31, 37, 38, 88, 107, 108, 118, 127, 255}

\* Information fields: every destination with every longitude, and the
\* destination of the tests with every speed and course, with a field that
\* is too short and with an SSID.
MicEInputs ==
    {[to |-> Callsign_new_no_ssid(to), info |-> lon \o B(<<"n", "dquote", "O", "j", "/">>)] :
        to \in MicEDestinations, lon \in MicELongitudes}
      \cup {[to |-> Callsign_new_no_ssid(B(<<"S", "3", "2", "U", "6", "T">>)), info |-> B(<<"(", "_", "f">>) \o <<x, y, z>> \o B(<<"j", "/", ">">>)] :
               x, y, z \in MicESpeedBytes}
      \cup {[to |-> Callsign_new_no_ssid(B(<<"S", "3", "2", "U", "6", "T">>)), info |-> B(<<"(", "_", "f", "n", "dquote", "O", "j">>)],
            [to |-> Callsign_new_with_ssid(B(<<"S", "3", "2", "U", "6", "T">>), B(<<"3">>)), info |-> B(<<"(", "_", "f", "n", "dquote", "O", "j", "/">>)],
            [to |-> Callsign_new_no_ssid(B(<<"S", "3", "2", "U", "6">>)), info |-> B(<<"(", "_", "f", "n", "dquote", "O", "j", "/">>)]}

InitMicE == hist \in {<<[tag |-> "mic_e_in"] @@ i>> : i \in MicEInputs}

\* AprsMicE::decode(b, to, current)
DecodeMicE ==
    /\ Len(hist) < MaxSteps
    /\ Last.tag = "mic_e_in"
    /\ \E current, checks \in BOOLEAN, e0, e1 \in RoundingErrors :
          hist' = Append(hist, [tag |-> "mic_e"]
                                   @@ AprsMicE_decode(Last.info, Last.to, current, e0, e1, checks))

\* data.encode_destination()
EncodeDestination ==
    /\ Len(hist) < MaxSteps
    /\ Last.tag = "mic_e"
    /\ Last.ok
    /\ \E e1, e2 \in RoundingErrors :
          hist' = Append(hist, [tag |-> "mic_e_to",
                                c |-> AprsMicE_encode_destination(Last.data, e1, e2)])

NextMicE == DecodeMicE \/ EncodeDestination

SpecMicE == InitMicE /\ [][NextMicE]_vars

(***************************************************************************)
(* C26  Mic-E destination round-trip                                       *)
(***************************************************************************)

\* C26: for every destination callsign `to` and information field that
\* AprsMicE::decode accepts, encode_destination() of the decoded record
\* returns a callsign equal to `to`.
C26_MicEDestinationRoundTrip ==
    (Len(hist) >= 3 /\ hist[1].tag = "mic_e_in" /\ hist[2].ok) => hist[3].c = hist[1].to

(***************************************************************************)
(* C27  Mic-E speed and course                                             *)
(***************************************************************************)

\* C27: for every information field b of at least 8 bytes and a valid
\* destination, AprsMicE::decode returns InvalidMicEInformation or a record
\* with speed in 0..=799 and course in 0..=360, where with sp = b[3] - 28,
\* dc = b[4] - 28 and se = b[5] - 28 the speed is 10 * sp + dc div 10 (minus
\* 800 if >= 800) and the course is 100 * (dc mod 10) + se (minus 400 if
\* >= 400); a byte below 28 gives the error, not a wrapped value or an
\* abort.
C27_MicESpeedCourse ==
    (Len(hist) >= 2 /\ hist[1].tag = "mic_e_in" /\ Len(hist[1].info) >= 8
         /\ hist[2].err # "InvalidMicEDestination") =>
        LET sp == hist[1].info[4] - 28
            dc == hist[1].info[5] - 28
            se == hist[1].info[6] - 28
            knots == 10 * sp + dc \div 10
            degrees == 100 * (dc % 10) + se
            speed == IF knots >= 800 THEN knots - 800 ELSE knots
            course == IF degrees >= 400 THEN degrees - 400 ELSE degrees
        IN  \/ ~hist[2].ok /\ hist[2].err = "InvalidMicEInformation"
            \/ /\ hist[2].ok
               /\ sp >= 0 /\ dc >= 0 /\ se >= 0
               /\ hist[2].data.speed = speed /\ speed \in 0..799
               /\ hist[2].data.course = course /\ course \in 0..360

(***************************************************************************)
(* Extension::encode (components/extensions.rs)                            *)
(***************************************************************************)

\* impl From<Directivity> for u8
Directivity_to_u8(val) == IF val.tag = "Omni" THEN 0 ELSE (val.deg % 360) \div 45

\* (x as f64).sqrt() as u8 of a u16 x: sqrt is correctly rounded and the
\* cast drops the fraction, which leaves the integer square root.
SqrtAsU8(x) == CHOOSE r \in 0..255 : r * r <= x /\ (r + 1) * (r + 1) > x

\* (x as f64).log2() as u8 of a u32 x: the logarithm of 0 is -inf, which the
\* cast makes 0; of a power of two it is the exponent, and in between the
\* cast drops the fraction.
RECURSIVE Log2AsU8(_)
Log2AsU8(x) == IF x <= 1 THEN 0 ELSE 1 + Log2AsU8(x \div 2)

\* format!("{:w$}", n): right-aligned, filled with spaces
RECURSIVE FormatSpaces(_, _)
FormatSpaces(n, w) ==
    LET digits == FormatU8(n)
    IN  IF Len(digits) >= w THEN digits ELSE <<32>> \o FormatSpaces(n, w - 1)

\* Extension::encode.  checked_add(48) of a logarithm, at most 31, never
\* fails.
Extension_encode(x) ==
    CASE x.tag = "DirectionSpeed" ->
           Wrote(FormatSpaces(x.direction_degrees, 3) \o <<47>> \o FormatSpaces(x.speed_knots, 3))
      [] x.tag = "PowerHeightGainDirectivity" ->
           IF x.antenna_gain_db >= 9 THEN Failed("InvalidExtension", <<>>)
           ELSE Wrote(<<80, 72, 71>> \o FormatU8(SqrtAsU8(x.power_watts))
                          \o <<Log2AsU8(x.antenna_height_feet \div 10) + 48>>
                          \o FormatU8(x.antenna_gain_db)
                          \o FormatU8(Directivity_to_u8(x.antenna_directivity)))
      [] x.tag = "RadioRange" -> Wrote(<<82, 78, 71>> \o FormatSpaces(x.radio_range_miles, 4))
      [] x.tag = "DFStrengthHeightGainDirectivity" ->
           IF x.s_points >= 9 THEN Failed("InvalidExtension", <<>>)
           ELSE IF x.antenna_gain_db >= 9 THEN Failed("InvalidExtension", <<>>)
           ELSE Wrote(<<68, 70, 83>> \o FormatU8(x.s_points)
                          \o <<Log2AsU8(x.antenna_height_feet \div 10) + 48>>
                          \o FormatU8(x.antenna_gain_db)
                          \o FormatU8(Directivity_to_u8(x.antenna_directivity)))
      [] x.tag = "AreaObjectDescriptor" ->
           Wrote(<<84>> \o FormatSpaces(x.object_type, 2) \o <<47, 67>>
                     \o FormatSpaces(x.color, 2))

(***************************************************************************)
(* Extension on its own: decode and encode                                 *)
(***************************************************************************)

\* Fields of 7 bytes of the five kinds: numbers with and without leading
\* zeros, blanks and signs; power, strength, gain and directivity codes up
\* to 9; height codes from below '0' to past the largest one, 'L'.  The
\* height of the code 'L', 2684354560 feet, needs a u32 and is left to the
\* code 'K'.
ExtensionFields ==
    {B(<<"R", "N", "G">>) \o n : n \in {B(<<"2", "3", "4", "5">>), B(<<"0", "0", "0", "5">>), B(<<" ", " ", " ", "5">>), B(<<"+", "1", "2", "3">>), B(<<"1", "2", "a", "4">>), B(<<"0", "0", "0", "0">>)}}
      \cup {h \o <<p, height, g, d>> :
               h \in {B(<<"P", "H", "G">>), B(<<"D", "F", "S">>)},
               p \in {Ord[x] : x \in {"0", "5", "8", "9", "a"}},
               height \in {Ord[x] : x \in {"/", "0", "1", ";", "K", "M"}},
               g \in {Ord[x] : x \in {"0", "3", "8", "9"}},
               d \in {Ord[x] : x \in {"0", "2", "8", "9"}}}
      \cup {B(<<"T">>) \o t \o s \o c :
               t \in {B(<<"1", "2">>), B(<<"0", "5">>), B(<<" ", "5">>), B(<<"1", "a">>)}, s \in {B(<<"/", "C">>), B(<<"x", "x">>)},
               c \in {B(<<"3", "4">>), B(<<"0", "7">>), B(<<" ", "7">>), B(<<"3", "a">>)}}
      \cup {d \o s \o k :
               d \in {B(<<"0", "8", "0">>), B(<<"1", "2", "3">>), B(<<" ", "8", "0">>), B(<<"+", "8", "0">>), B(<<"0", "8", "a">>)},
               s \in {B(<<"/", "0">>), B(<<"/", "1">>), B(<<"/", " ">>), B(<<"-", "0">>)},
               k \in {B(<<"4", "3">>), B(<<" ", "3">>), B(<<"4", "a">>)}}

InitExtension == hist \in {<<[tag |-> "extension_field", b |-> b]>> : b \in ExtensionFields}

\* Extension::decode(b)
DecodeExtension ==
    /\ Len(hist) < MaxSteps
    /\ Last.tag = "extension_field"
    /\ hist' = Append(hist, [tag |-> "extension"] @@ Extension_decode(Last.b))

\* ext.encode(&mut buf) into an empty buffer
EncodeExtension ==
    /\ Len(hist) < MaxSteps
    /\ Last.tag = "extension"
    /\ Last.ok
    /\ hist' = Append(hist, [tag |-> "extension_written"] @@ Extension_encode(Last.ext))

NextExtension == DecodeExtension \/ EncodeExtension

SpecExtension == InitExtension /\ [][NextExtension]_vars

(***************************************************************************)
(* C28  Extension round-trip                                               *)
(***************************************************************************)

\* C28: for every 7-byte sequence b that Extension::decode accepts,
\* Extension::encode of the decoded value succeeds and writes exactly the 7
\* bytes b.
C28_ExtensionRoundTrip ==
    (Len(hist) >= 3 /\ hist[1].tag = "extension_field" /\ hist[2].ok) =>
        (hist[3].ok /\ hist[3].out = hist[1].b)

(***************************************************************************)
(* C29  Object decode is total                                             *)
(***************************************************************************)

\* C29: for every byte sequence b, AprsObject::decode returns Ok or a
\* DecodeError and never aborts on an out-of-range index.
C29_ObjectDecodeTotal ==
    (Len(hist) >= 2 /\ hist[1].tag = "body" /\ hist[2].tag = "object") =>
        hist[2].err # Panic

(***************************************************************************)
(* C30  A failed encode and the sink                                       *)
(***************************************************************************)

\* C30: whenever AprsPacket::encode_textual or AprsPacket::encode_ax25
\* returns an EncodeError that does not come from the sink (InvalidCallsign,
\* InvalidData, InvalidMessageAddressee, NonGgaAltitude, InvalidExtension),
\* no byte has been written to the sink.
C30_FailedEncodeUntouched ==
    \A k \in 1..Len(hist) :
        ( /\ hist[k].tag = "encode_error"
          /\ hist[k].err \in {"InvalidCallsign", "InvalidData", "InvalidMessageAddressee",
                              "NonGgaAltitude", "InvalidExtension"} ) =>
            hist[k].out = <<>>

====
